---- MODULE Spec2Model ----
(***************************************************************************)
(* Model of the store coordination core of mf-shared                       *)
(* (src/src/store/GlobalStore.ts, lines 1-529): StorageCore,               *)
(* SubscriptionManager, PersistenceManager, SyncManager and GlobalStore.   *)
(*                                                                         *)
(* Strings are sequences of one-character strings, so that split('.'),     *)
(* startsWith and length are computed as the code computes them.           *)
(* A JSON value is a function from segment paths (sequences of segments)   *)
(* to node tags: "obj" for a mapping, a scalar tag otherwise.  undefined   *)
(* is the value whose root tag is "undefined".                             *)
(***************************************************************************)
EXTENDS Integers, Sequences, FiniteSets, TLC

VARIABLES
  tree,           \* [Ctx -> Value]   StorageCore.data of each context
  subscribers,    \* [Ctx -> Map]     SubscriptionManager.subscribers
  strategies,     \* [Ctx -> Map]     PersistenceManager.strategies
  options,        \* [Ctx -> record]  GlobalStore.options
  isInitialized,  \* [Ctx -> BOOLEAN] GlobalStore.isInitialized
  channel,        \* [Ctx -> name or NoChannel] SyncManager.channel
  inbox,          \* [Ctx -> Seq(message)] messages posted and not yet handled
  localStorage,   \* item key -> stored string, shared by the origin
  sessionStorage, \* [Ctx -> item key -> stored string], one per context
  calls,          \* callback invocations of the last operation, in order
  last,           \* the last operation: its arguments, result and pre-state
  sets,           \* number of set operations performed so far
  listening,      \* [Ctx -> BOOLEAN] a storage listener of the store exists
  destroyed,      \* [Ctx -> BOOLEAN] destroy() has been called on the store
  bundleInstance, \* [Bundle -> store or NoStore] globalStoreInstance of
                  \* each loaded copy of the facade module
  windowGlobalStore, \* window.globalStore: a store or NoStore
  steps           \* the statements of the set just performed, in order

vars == <<tree, subscribers, strategies, options, isInitialized, channel,
          inbox, localStorage, sessionStorage, calls, last, sets, listening,
          destroyed, bundleInstance, windowGlobalStore, steps>>

----------------------------------------------------------------------------
(* Strings *)

\* 'a.b'.split('.') : the segments between the dots, at least one segment
RECURSIVE split(_)
split(s) ==
  IF \A i \in 1..Len(s) : s[i] # "."
  THEN <<s>>
  ELSE LET d == CHOOSE i \in 1..Len(s) :
                  s[i] = "." /\ \A j \in 1..(i-1) : s[j] # "."
       IN <<SubSeq(s, 1, d-1)>> \o split(SubSeq(s, d+1, Len(s)))

\* parts.slice(0, i).join('.')
RECURSIVE join(_)
join(parts) ==
  IF Len(parts) = 0 THEN <<>>
  ELSE IF Len(parts) = 1 THEN parts[1]
  ELSE parts[1] \o <<".">> \o join(Tail(parts))

\* key.startsWith(prefix)
startsWith(key, prefix) ==
  /\ Len(prefix) <= Len(key)
  /\ SubSeq(key, 1, Len(prefix)) = prefix

----------------------------------------------------------------------------
(* JSON values *)

Undef    == (<<>> :> "undefined")
Null     == (<<>> :> "null")
EmptyObj == (<<>> :> "obj")
Scalar(t) == (<<>> :> t)

\* !v  (undefined and null are the falsy values of the model)
Falsy(v) == v[<<>>] \in {"undefined", "null"}

\* typeof v === 'object'
TypeofObject(v) == v[<<>>] \in {"obj", "null"}

\* Object.keys(v)
ObjectKeys(v) == {p[1] : p \in {r \in DOMAIN v : Len(r) = 1}}

Str      == Scalar("str")         \* the string 'x'

SegLength == <<"l", "e", "n", "g", "t", "h">>

\* v[seg] : a property read; undefined on a missing property, on a number
\* and on null; a string has the property 'length' (its indices are not
\* among the segments of the model)
Prop(v, seg) ==
  IF v[<<>>] = "obj" /\ <<seg>> \in DOMAIN v
  THEN [q \in {Tail(p) : p \in {r \in DOMAIN v : r # <<>> /\ Head(r) = seg}}
          |-> v[<<seg>> \o q]]
  ELSE IF v[<<>>] = "str" /\ seg = SegLength THEN Scalar("1")
  ELSE Undef

\* v[seg] = w
Put(v, seg, w) ==
  LET keep == {p \in DOMAIN v : p = <<>> \/ Head(p) # seg}
      new  == {<<seg>> \o q : q \in DOMAIN w}
  IN [p \in keep \cup new |-> IF p \in new THEN w[Tail(p)] ELSE v[p]]

\* delete v[seg]
Delete(v, seg) ==
  [p \in {r \in DOMAIN v : r = <<>> \/ Head(r) # seg} |-> v[p]]

----------------------------------------------------------------------------
(* Keys, values and the other finite sets the inputs are drawn from *)

Ctx == {"A", "B"}

\* the copies of the facade module loaded into one context, one per bundle
Bundle == {"host", "remote"}

NoStore == "null"                 \* no GlobalStore instance

KEmpty == <<>>                    \* ''
Ka     == <<"a">>                 \* 'a'
Kab    == <<"a", ".", "b">>       \* 'a.b'
Kabc   == <<"a", ".", "b", ".", "c">>   \* 'a.b.c'
Kz     == <<"z">>                 \* 'z'
KaDot  == <<"a", ".">>            \* 'a.'   (empty last segment)
KDotb  == <<".", "b">>            \* '.b'   (empty first segment)

SegA == <<"a">>
SegB == <<"b">>
SegE == <<>>                      \* the empty segment

One    == Scalar("1")
Two    == Scalar("2")
ObjB1  == Put(EmptyObj, SegB, One)       \* {b: 1}
ObjE1  == Put(EmptyObj, SegE, One)       \* {"": 1}

\* the last segment of a path is not the empty string
LastSegNonEmpty(path) == split(path)[Len(split(path))] # <<>>

----------------------------------------------------------------------------
(* StorageCore *)

RECURSIVE reduceGet(_, _)
reduceGet(current, keys) ==
  IF keys = <<>> THEN current
  ELSE reduceGet(IF ~Falsy(current) /\ Prop(current, Head(keys)) # Undef
                 THEN Prop(current, Head(keys))
                 ELSE Undef,
                 Tail(keys))

getNestedValue(obj, path) == reduceGet(obj, split(path))

RECURSIVE reduceSet(_, _, _, _)
reduceSet(current, keys, lastKey, value) ==
  IF keys = <<>>
  THEN IF value = Undef THEN Delete(current, lastKey)
                        ELSE Put(current, lastKey, value)
  ELSE LET c     == Prop(current, Head(keys))
           child == IF Falsy(c) \/ ~TypeofObject(c) THEN EmptyObj ELSE c
       IN Put(current, Head(keys),
              reduceSet(child, Tail(keys), lastKey, value))

\* mutant: the deletion branch stores a null sentinel
setNestedValueSentinel(obj, path, value) ==
  LET keys    == split(path)
      lastKey == keys[Len(keys)]
  IN IF lastKey = <<>> THEN obj
     ELSE reduceSet(obj, SubSeq(keys, 1, Len(keys) - 1), lastKey,
                    IF value = Undef THEN Null ELSE value)

\* mutant: the write is dropped when the path has more than one segment
setNestedValueFlat(obj, path, value) ==
  LET keys    == split(path)
      lastKey == keys[Len(keys)]
  IN IF lastKey = <<>> \/ Len(keys) > 1 THEN obj
     ELSE reduceSet(obj, <<>>, lastKey, value)

setNestedValue(obj, path, value) ==
  LET keys    == split(path)
      lastKey == keys[Len(keys)]
  IN IF lastKey = <<>> THEN obj
     ELSE reduceSet(obj, SubSeq(keys, 1, Len(keys) - 1), lastKey, value)

StorageCoreGet(data, path) == getNestedValue(data, path)

\* StorageCore.set: the new data and the returned old value
StorageCoreSet(data, path, value) ==
  [data |-> setNestedValue(data, path, value),
   ret  |-> StorageCoreGet(data, path)]

----------------------------------------------------------------------------
(* Records of the last operation *)

NoCb == "none"

Op(op, c, key, value, ret, before, cb, threw) ==
  [op |-> op, ctx |-> c, key |-> key, value |-> value, ret |-> ret,
   before |-> before, cb |-> cb, threw |-> threw, fail |-> "none"]

\* the record of an operation during which the storage medium failed as fail
OpF(op, c, key, value, ret, before, cb, threw, fail) ==
  [Op(op, c, key, value, ret, before, cb, threw) EXCEPT !.fail = fail]

NoOp == Op("none", "A", KEmpty, Undef, Undef, EmptyObj, NoCb, FALSE)

----------------------------------------------------------------------------
(* State after construction (GlobalStore constructor, lines 321-333) *)

EmptyMap == [x \in {} |-> x]

NoChannel == <<"#">>

StoreS == <<"S">>                 \* a storageKey
StoreT == <<"T">>                 \* another storageKey

DefaultOptions ==
  [enablePersistence |-> TRUE, enableEncryption |-> TRUE,
   storageKey |-> StoreS]

Init ==
  /\ tree = [c \in Ctx |-> EmptyObj]
  /\ subscribers = [c \in Ctx |-> EmptyMap]
  /\ strategies = [c \in Ctx |-> EmptyMap]
  /\ options = [c \in Ctx |-> DefaultOptions]
  /\ isInitialized = [c \in Ctx |-> FALSE]
  /\ channel = [c \in Ctx |-> NoChannel]
  /\ inbox = [c \in Ctx |-> <<>>]
  /\ localStorage = EmptyMap
  /\ sessionStorage = [c \in Ctx |-> EmptyMap]
  /\ calls = <<>>
  /\ last = NoOp
  /\ sets = 0
  /\ listening = [c \in Ctx |-> FALSE]
  /\ destroyed = [c \in Ctx |-> FALSE]
  /\ bundleInstance = [b \in Bundle |-> NoStore]
  /\ windowGlobalStore = NoStore
  /\ steps = <<>>

\* The operations of GlobalStore that the facade calls say nothing about the
\* variables of the facade.  Direct: the call is made on the instance itself.
Direct == UNCHANGED <<bundleInstance, windowGlobalStore>>

----------------------------------------------------------------------------
(* PathStore alone: StorageCore.set / get / clear of one context *)

PathKeys   == {KEmpty, Ka, Kab, Kz, KaDot, KDotb}
PathValues == {Undef, One, Two, Null, ObjB1, ObjE1}

CoreWrite(p, v) ==
  LET r == StorageCoreSet(tree["A"], p, v)
  IN /\ tree' = [tree EXCEPT !["A"] = r.data]
     /\ last' = Op("write", "A", p, v, r.ret, tree["A"], NoCb, FALSE)
     /\ steps' = <<>>
     /\ UNCHANGED <<subscribers, strategies, options, isInitialized, channel,
                    inbox, localStorage, sessionStorage, calls, sets,
                    listening, destroyed, bundleInstance, windowGlobalStore>>

\* StorageCore.clear
CoreClear ==
  /\ tree' = [tree EXCEPT !["A"] = EmptyObj]
  /\ last' = Op("clear", "A", KEmpty, Undef, Undef, tree["A"], NoCb, FALSE)
  /\ steps' = <<>>
  /\ UNCHANGED <<subscribers, strategies, options, isInitialized, channel,
                 inbox, localStorage, sessionStorage, calls, sets, listening,
                 destroyed, bundleInstance, windowGlobalStore>>

NextPath ==
  \/ \E p \in PathKeys, v \in PathValues : CoreWrite(p, v)
  \/ CoreClear

SpecPath == Init /\ [][NextPath]_vars

\* parent container of a path: the root for a one-segment path
ParentOf(data, path) ==
  LET keys == split(path)
  IN reduceGet(data, SubSeq(keys, 1, Len(keys) - 1))

LeafOf(path) == split(path)[Len(split(path))]

\* C5 (as stated): for every path p, including paths with an empty segment,
\* and every non-absent value v, write(p, v) then read(p) returns v.
C5_RoundTripAllPaths ==
  (last.op = "write" /\ last.value # Undef)
    => StorageCoreGet(tree["A"], last.key) = last.value

\* C5 (amended): for every path p whose last segment is not empty and every
\* non-absent value v, write(p, v) then read(p) returns v; a write to a path
\* whose last segment is empty leaves the Tree unchanged.
C5_RoundTrip ==
  /\ (last.op = "write" /\ last.value # Undef /\ LastSegNonEmpty(last.key))
       => StorageCoreGet(tree["A"], last.key) = last.value
  /\ (last.op = "write" /\ ~LastSegNonEmpty(last.key))
       => tree["A"] = last.before

C5_Witness ==
  /\ last.op = "write" /\ last.key = Kab /\ last.value = ObjB1
  /\ StorageCoreGet(last.before, Ka) = One

\* C6 (as stated): for every path p, write(p, absent) then read(p) returns
\* absent, the parent container no longer has the leaf segment among its
\* keys, and write returns the value that was at p before.
C6_DeleteAllPaths ==
  (last.op = "write" /\ last.value = Undef)
    => /\ StorageCoreGet(tree["A"], last.key) = Undef
       /\ LeafOf(last.key) \notin ObjectKeys(ParentOf(tree["A"], last.key))
       /\ last.ret = StorageCoreGet(last.before, last.key)

\* C6 (amended): the same for every path p whose last segment is not empty.
C6_Delete ==
  (last.op = "write" /\ last.value = Undef /\ LastSegNonEmpty(last.key))
    => /\ StorageCoreGet(tree["A"], last.key) = Undef
       /\ LeafOf(last.key) \notin ObjectKeys(ParentOf(tree["A"], last.key))
       /\ last.ret = StorageCoreGet(last.before, last.key)

C6_Witness ==
  /\ last.op = "write" /\ last.key = Kab /\ last.value = Undef
  /\ last.ret = One
  /\ SegA \in ObjectKeys(tree["A"])

\* C38: write(p, absent) on a Tree in which p is absent leaves the Tree
\* unchanged: no intermediate container is created and read of every
\* ancestor of p returns what it returned before.
C38_DeleteAbsentNoChange ==
  (/\ last.op = "write" /\ last.value = Undef
   /\ StorageCoreGet(last.before, last.key) = Undef)
    => tree["A"] = last.before

----------------------------------------------------------------------------
(* PathStore: paths through a value that is not a mapping *)

KaLen == Ka \o <<".">> \o SegLength     \* 'a.length'

FrameKeys   == {Ka, Kab, KaLen, Kz}
FrameValues == {Undef, One, Str, ObjB1}

NextFrame ==
  \/ \E p \in FrameKeys, v \in FrameValues : CoreWrite(p, v)
  \/ CoreClear

SpecFrame == Init /\ [][NextFrame]_vars

\* the segments of q are the first segments of p
SegPrefix(q, p) ==
  /\ Len(split(q)) <= Len(split(p))
  /\ SubSeq(split(p), 1, Len(split(q))) = split(q)

\* C37: write(p, v) changes nothing outside p: for every path q such that
\* neither is a segment-wise prefix of the other, read(q) returns the same
\* value before and after the write, also when an intermediate segment of p
\* held a non-object value that the write replaces by a fresh mapping.
C37_WriteFrame ==
  last.op = "write"
    => \A q \in FrameKeys :
         (~SegPrefix(q, last.key) /\ ~SegPrefix(last.key, q))
           => StorageCoreGet(tree["A"], q) = StorageCoreGet(last.before, q)

----------------------------------------------------------------------------
(* PersistenceManager: the strategy registry *)

\* a Map in insertion order: a sequence of [prefix, strategy] entries
Strategy(medium, encrypted) == [medium |-> medium, encrypted |-> encrypted]

NoStrategy == Strategy("none", FALSE)        \* undefined

\* Map.set: overwrite in place, or append
configureStrategy(strats, keyOrPrefix, strategy) ==
  IF \E i \in DOMAIN strats : strats[i].prefix = keyOrPrefix
  THEN [i \in DOMAIN strats |->
          IF strats[i].prefix = keyOrPrefix
          THEN [prefix |-> keyOrPrefix, strategy |-> strategy]
          ELSE strats[i]]
  ELSE Append(strats, [prefix |-> keyOrPrefix, strategy |-> strategy])

\* the forEach of findStrategyFor, from entry i on
RECURSIVE forEachStrategy(_, _, _, _, _)
forEachStrategy(strats, i, key, bestPrefix, bestStrategy) ==
  IF i > Len(strats) THEN bestStrategy
  ELSE IF /\ startsWith(key, strats[i].prefix)
          /\ Len(strats[i].prefix) > Len(bestPrefix)
       THEN forEachStrategy(strats, i + 1, key,
                            strats[i].prefix, strats[i].strategy)
       ELSE forEachStrategy(strats, i + 1, key, bestPrefix, bestStrategy)

\* mutant: the first matching prefix wins, no length comparison
findStrategyForFirst(strats, key) ==
  LET M == {i \in DOMAIN strats :
              startsWith(key, strats[i].prefix) /\ strats[i].prefix # <<>>}
  IN IF M = {} THEN NoStrategy
     ELSE strats[CHOOSE i \in M : \A j \in M : i <= j].strategy

\* mutant: the empty prefix is accepted when no longer prefix matches
findStrategyForEmpty(strats, key) ==
  LET best == forEachStrategy(strats, 1, key, <<>>, NoStrategy)
      E    == {i \in DOMAIN strats : strats[i].prefix = <<>>}
  IN IF best = NoStrategy /\ E # {}
     THEN strats[CHOOSE i \in E : TRUE].strategy
     ELSE best

findStrategyFor(strats, key) ==
  forEachStrategy(strats, 1, key, <<>>, NoStrategy)

----------------------------------------------------------------------------
(* The registry alone: configureStrategy and findStrategyFor of one context *)

KWord == <<"a", "b">>             \* 'ab' : starts with 'a', one segment

Prefixes    == {KEmpty, Ka, KaDot, Kab}
ResolveKeys == {Ka, Kab, KWord, Kz}
Strategies  == {Strategy("local", FALSE), Strategy("session", TRUE),
                Strategy("memory", FALSE)}

\* GlobalStore.configureStrategy
ConfigureStrategy(c, prefix, strategy) ==
  /\ strategies' = [strategies EXCEPT
                      ![c] = configureStrategy(strategies[c], prefix, strategy)]
  /\ last' = Op("configure", c, prefix, Undef, strategy, tree[c], NoCb, FALSE)
  /\ steps' = <<>>
  /\ UNCHANGED <<tree, subscribers, options, isInitialized, channel, inbox,
                 localStorage, sessionStorage, calls, sets, listening,
                 destroyed>>

\* a call of findStrategyFor, its result kept in last.ret
Resolve(c, key) ==
  /\ last' = Op("resolve", c, key, Undef,
                findStrategyFor(strategies[c], key), tree[c], NoCb, FALSE)
  /\ steps' = <<>>
  /\ UNCHANGED <<tree, subscribers, strategies, options, isInitialized,
                 channel, inbox, localStorage, sessionStorage, calls, sets,
                 listening, destroyed, bundleInstance, windowGlobalStore>>

NextResolve ==
  \/ Direct /\ \E p \in Prefixes, st \in Strategies :
       ConfigureStrategy("A", p, st)
  \/ \E k \in ResolveKeys : Resolve("A", k)

SpecResolve == Init /\ [][NextResolve]_vars

\* entries whose prefix the key starts with
Matching(strats, key) ==
  {i \in DOMAIN strats : startsWith(key, strats[i].prefix)}

\* the result is the strategy of a longest prefix among the entries M
IsLongestOf(strats, M, ret) ==
  IF M = {} THEN ret = NoStrategy
  ELSE \E i \in M :
         /\ \A j \in M : Len(strats[j].prefix) <= Len(strats[i].prefix)
         /\ ret = strats[i].strategy

\* after configureStrategy(p, s) exactly one entry has prefix p, with s
Overwrites(strats, p, st) ==
  /\ Cardinality({i \in DOMAIN strats : strats[i].prefix = p}) = 1
  /\ \A i \in DOMAIN strats : strats[i].prefix = p => strats[i].strategy = st

\* C7 (as stated): resolve(key) returns the strategy of the longest
\* registered prefix that key starts with, by string length; none when no
\* registered prefix matches; re-registering a prefix overwrites.
C7_LongestAnyPrefix ==
  /\ last.op = "resolve"
       => IsLongestOf(strategies["A"],
                      Matching(strategies["A"], last.key), last.ret)
  /\ last.op = "configure"
       => Overwrites(strategies["A"], last.key, last.ret)

\* C7 (amended): resolve(key) returns the strategy of the longest registered
\* NON-EMPTY prefix that key starts with, by string length and not by
\* segments; none when no registered non-empty prefix matches (a strategy
\* registered under the empty prefix is never returned); re-registering a
\* prefix overwrites its strategy.
C7_LongestPrefix ==
  /\ last.op = "resolve"
       => IsLongestOf(strategies["A"],
                      {i \in Matching(strategies["A"], last.key) :
                         strategies["A"][i].prefix # <<>>},
                      last.ret)
  /\ last.op = "configure"
       => Overwrites(strategies["A"], last.key, last.ret)

\* 'a' and 'a.' are registered with different strategies, 'ab' resolves to
\* the strategy of 'a' and 'a.b' to the strategy of 'a.'
C7_Witness ==
  /\ last.op = "resolve" /\ last.key = Kab
  /\ \E i, j \in DOMAIN strategies["A"] :
       /\ strategies["A"][i].prefix = Ka
       /\ strategies["A"][j].prefix = KaDot
       /\ i < j
       /\ strategies["A"][i].strategy # strategies["A"][j].strategy
       /\ last.ret = strategies["A"][j].strategy
       /\ findStrategyFor(strategies["A"], KWord) = strategies["A"][i].strategy

----------------------------------------------------------------------------
(* SubscriptionManager *)

Callbacks == {"f", "g"}

\* subscribers: a function from the keys present in the Map to the
\* callbacks of the key's Set, in insertion order
subscribe(subs, key, callback) ==
  LET cur == IF key \in DOMAIN subs THEN subs[key] ELSE <<>>
      new == IF \E i \in DOMAIN cur : cur[i] = callback
             THEN cur ELSE Append(cur, callback)
  IN [k \in DOMAIN subs \cup {key} |-> IF k = key THEN new ELSE subs[k]]

\* mutant: the callback is removed from every path it is registered under
unsubscribeAllPaths(subs, key, callback) ==
  LET rest(k) == SelectSeq(subs[k], LAMBDA x : x # callback)
      left    == {k \in DOMAIN subs : Len(rest(k)) > 0}
  IN [k \in left |-> rest(k)]

unsubscribe(subs, key, callback) ==
  IF key \notin DOMAIN subs THEN subs
  ELSE LET rest == SelectSeq(subs[key], LAMBDA x : x # callback)
       IN IF Len(rest) = 0
          THEN [k \in DOMAIN subs \ {key} |-> subs[k]]
          ELSE [subs EXCEPT ![key] = rest]

Call(cb, key, newValue, oldValue, throwers) ==
  [cb |-> cb, key |-> key, new |-> newValue, old |-> oldValue,
   threw |-> cb \in throwers]

\* callback(key, newValue, oldValue) for each callback of cbs, each call in
\* its own try/catch
CallEach(cbs, key, newValue, oldValue, throwers) ==
  [i \in DOMAIN cbs |-> Call(cbs[i], key, newValue, oldValue, throwers)]

\* the loop over the parent paths, from index i down to 1
RECURSIVE notifyParents(_, _, _, _, _, _)
notifyParents(subs, keyParts, i, oldValue, data, throwers) ==
  IF i <= 0 THEN <<>>
  ELSE LET parentKey == join(SubSeq(keyParts, 1, i))
           these == IF parentKey \in DOMAIN subs
                    THEN CallEach(subs[parentKey], parentKey,
                                  StorageCoreGet(data, parentKey),
                                  oldValue, throwers)
                    ELSE <<>>
       IN these \o notifyParents(subs, keyParts, i - 1, oldValue, data,
                                 throwers)

\* all the calls notify makes when no exception escapes
notifyCalls(subs, key, newValue, oldValue, data, immediateCallback, throwers) ==
  LET imm   == IF immediateCallback # NoCb
               THEN <<Call(immediateCallback, key, newValue, oldValue,
                           throwers)>>
               ELSE <<>>
      exact == IF key \in DOMAIN subs
               THEN CallEach(SelectSeq(subs[key],
                                       LAMBDA x : x # immediateCallback),
                             key, newValue, oldValue, throwers)
               ELSE <<>>
      keyParts == split(key)
  IN imm \o exact
       \o notifyParents(subs, keyParts, Len(keyParts) - 1, oldValue, data,
                        throwers)

\* mutant: no try/catch, the first throwing callback ends the notification
notifyNoCatch(subs, key, newValue, oldValue, data, immediateCallback, throwers) ==
  LET all == notifyCalls(subs, key, newValue, oldValue, data,
                         immediateCallback, throwers)
      T   == {i \in DOMAIN all : all[i].threw}
  IN IF T = {} THEN [calls |-> all, threw |-> FALSE]
     ELSE [calls |-> SubSeq(all, 1, CHOOSE i \in T : \A j \in T : i <= j),
           threw |-> TRUE]

\* mutant: the immediate callback is not skipped among the exact subscribers
notifyNoDedup(subs, key, newValue, oldValue, data, immediateCallback, throwers) ==
  LET imm   == IF immediateCallback # NoCb
               THEN <<Call(immediateCallback, key, newValue, oldValue,
                           throwers)>>
               ELSE <<>>
      exact == IF key \in DOMAIN subs
               THEN CallEach(subs[key], key, newValue, oldValue, throwers)
               ELSE <<>>
      keyParts == split(key)
  IN [calls |-> imm \o exact
                  \o notifyParents(subs, keyParts, Len(keyParts) - 1,
                                   oldValue, data, throwers),
      threw |-> FALSE]

\* mutant: parent subscribers get the leaf's new value, not the parent's
notifyLeafValue(subs, key, newValue, oldValue, data, immediateCallback, throwers) ==
  LET all == notifyCalls(subs, key, newValue, oldValue, data,
                         immediateCallback, throwers)
  IN [calls |-> [i \in DOMAIN all |-> [all[i] EXCEPT !.new = newValue]],
      threw |-> FALSE]

\* SubscriptionManager.notify: the calls made, and whether it threw
notify(subs, key, newValue, oldValue, data, immediateCallback, throwers) ==
  [calls |-> notifyCalls(subs, key, newValue, oldValue, data,
                         immediateCallback, throwers),
   threw |-> FALSE]

----------------------------------------------------------------------------
(* Encoding (src/src/utils/encryption.ts) and the storage media *)

\* A stored string is kept as its format and the value it encodes:
\* "enc" is the output of encryptObject, "json" the output of JSON.stringify.
encryptObject(v) == [fmt |-> "enc", v |-> v]
JSONstringify(v) == [fmt |-> "json", v |-> v]

\* JSON.parse: throws on anything that is not JSON text
JSONparse(str) ==
  IF str.fmt = "json" THEN [ok |-> TRUE, v |-> str.v]
  ELSE [ok |-> FALSE, v |-> Undef]

\* decryptObject: decrypt and parse; on failure parse the input itself;
\* {} when that fails too
decryptObject(str) ==
  IF str.fmt = "enc" THEN str.v
  ELSE IF JSONparse(str).ok THEN JSONparse(str).v
  ELSE EmptyObj

setItem(store, itemKey, str) ==
  [k \in DOMAIN store \cup {itemKey} |->
     IF k = itemKey THEN str ELSE store[k]]

removeItem(store, itemKey) ==
  [k \in DOMAIN store \ {itemKey} |-> store[k]]

\* the items of store other than itemKey are the same in store2
OthersKept(store, store2, itemKey) ==
  /\ DOMAIN store \ {itemKey} = DOMAIN store2 \ {itemKey}
  /\ \A k \in DOMAIN store \ {itemKey} : store2[k] = store[k]

DefaultStorageKey == StoreS       \* 'mf-shell-store'

\* this.options.storageKey || 'mf-shell-store'
OrDefault(storageKey) ==
  IF storageKey = <<>> THEN DefaultStorageKey ELSE storageKey

makeItemKey(opts, key) == OrDefault(opts.storageKey) \o <<":">> \o key

\* mutant: a key of medium memory is written to durable-local storage
persistKeyMemoryAsLocal(c, key, value, failed) ==
  LET strategy == findStrategyFor(strategies[c], key)
      itemKey  == makeItemKey(options[c], key)
      same     == [local |-> localStorage, session |-> sessionStorage[c]]
  IN IF strategy = NoStrategy \/ failed THEN same
     ELSE IF value = Undef
     THEN [same EXCEPT !.local = removeItem(localStorage, itemKey)]
     ELSE [same EXCEPT !.local = setItem(localStorage, itemKey,
                                         JSONstringify(value))]

\* mutant: persisting undefined writes a null tombstone instead of removing
persistKeyTombstone(c, key, value, failed) ==
  LET strategy == findStrategyFor(strategies[c], key)
      itemKey  == makeItemKey(options[c], key)
      same     == [local |-> localStorage, session |-> sessionStorage[c]]
      serialized == IF strategy.encrypted
                    THEN encryptObject(IF value = Undef THEN Null ELSE value)
                    ELSE JSONstringify(IF value = Undef THEN Null ELSE value)
  IN IF strategy = NoStrategy \/ strategy.medium = "memory" THEN same
     ELSE IF failed THEN same
     ELSE IF strategy.medium = "local"
     THEN [same EXCEPT !.local = setItem(localStorage, itemKey, serialized)]
     ELSE [same EXCEPT !.session = setItem(sessionStorage[c], itemKey,
                                           serialized)]

\* PersistenceManager.persistKey: the media after the call.
\* failed: the storage operation throws (quota, medium unavailable).
persistKey(c, key, value, failed) ==
  LET strategy == findStrategyFor(strategies[c], key)
      itemKey  == makeItemKey(options[c], key)
      same     == [local |-> localStorage, session |-> sessionStorage[c]]
  IN IF strategy = NoStrategy \/ strategy.medium = "memory" THEN same
     ELSE IF failed THEN same
     ELSE IF value = Undef
     THEN IF strategy.medium = "local"
          THEN [same EXCEPT !.local = removeItem(localStorage, itemKey)]
          ELSE [same EXCEPT !.session = removeItem(sessionStorage[c], itemKey)]
     ELSE LET serialized == IF strategy.encrypted THEN encryptObject(value)
                            ELSE JSONstringify(value)
          IN IF strategy.medium = "local"
             THEN [same EXCEPT !.local = setItem(localStorage, itemKey,
                                                 serialized)]
             ELSE [same EXCEPT !.session = setItem(sessionStorage[c], itemKey,
                                                   serialized)]

\* PersistenceManager.loadKey, reading the media local and session
loadKey(c, key, local, session) ==
  LET strategy == findStrategyFor(strategies[c], key)
      itemKey  == makeItemKey(options[c], key)
      medium   == IF strategy.medium = "local" THEN local ELSE session
  IN IF strategy = NoStrategy \/ strategy.medium = "memory" THEN Undef
     ELSE IF itemKey \notin DOMAIN medium THEN Undef
     ELSE IF strategy.encrypted THEN decryptObject(medium[itemKey])
     ELSE IF JSONparse(medium[itemKey]).ok THEN JSONparse(medium[itemKey]).v
     ELSE Undef

\* mutant: the aggregate item is written only when there is none yet
saveToStorageIfAbsent(opts, local, data, failed) ==
  IF ~opts.enablePersistence \/ opts.storageKey = <<>> THEN local
  ELSE IF failed \/ opts.storageKey \in DOMAIN local THEN local
  ELSE setItem(local, opts.storageKey,
               IF opts.enableEncryption THEN encryptObject(data)
               ELSE JSONstringify(data))

\* PersistenceManager.saveToStorage: localStorage after the call
saveToStorage(opts, local, data, failed) ==
  IF ~opts.enablePersistence \/ opts.storageKey = <<>> THEN local
  ELSE IF failed THEN local
  ELSE setItem(local, opts.storageKey,
               IF opts.enableEncryption THEN encryptObject(data)
               ELSE JSONstringify(data))

\* PersistenceManager.loadFromStorage
loadFromStorage(opts, local) ==
  IF ~opts.enablePersistence \/ opts.storageKey = <<>> THEN EmptyObj
  ELSE IF opts.storageKey \notin DOMAIN local THEN EmptyObj
  ELSE IF opts.enableEncryption THEN decryptObject(local[opts.storageKey])
  ELSE IF JSONparse(local[opts.storageKey]).ok
       THEN JSONparse(local[opts.storageKey]).v
  ELSE EmptyObj

\* no registered prefix other than '' is a prefix of key
NoNonEmptyPrefix(strats, key) ==
  \A i \in Matching(strats, key) : strats[i].prefix = <<>>

\* C39: a strategy registered under the empty-string prefix is never
\* returned by resolve: a key with no non-empty registered prefix resolves
\* to none, and persisting a value under it writes no per-key item.
C39_EmptyPrefixNeverResolved ==
  /\ (last.op = "resolve" /\ NoNonEmptyPrefix(strategies["A"], last.key))
       => last.ret = NoStrategy
  /\ \A key \in ResolveKeys :
       NoNonEmptyPrefix(strategies["A"], key)
         => /\ persistKey("A", key, One, FALSE).local = localStorage
            /\ persistKey("A", key, One, FALSE).session = sessionStorage["A"]

\* only '' is registered, with medium local, and 'a.b' resolved to none
C39_Witness ==
  /\ last.op = "resolve" /\ last.key = Kab /\ last.ret = NoStrategy
  /\ Len(strategies["A"]) = 1
  /\ strategies["A"][1].prefix = <<>>
  /\ strategies["A"][1].strategy = Strategy("local", FALSE)

----------------------------------------------------------------------------
(* SyncManager *)

SetMsg(key, value) == [type |-> "set", key |-> key, value |-> value]
ClearMsg(appStorageKey) ==
  [type |-> "clearAppData", key |-> appStorageKey, value |-> Undef]

\* mutant: a message is posted to the channels of every name
broadcastAnyChannel(c, message, failed) ==
  [d \in Ctx |->
     IF d # c /\ channel[c] # NoChannel /\ channel[d] # NoChannel /\ ~failed
     THEN Append(inbox[d], message)
     ELSE inbox[d]]

\* SyncManager.broadcast: postMessage reaches every other open channel of
\* the same name; nothing happens without a channel or when posting throws
broadcast(c, message, failed) ==
  [d \in Ctx |->
     IF /\ d # c
        /\ channel[c] # NoChannel
        /\ channel[d] = channel[c]
        /\ ~failed
     THEN Append(inbox[d], message)
     ELSE inbox[d]]

----------------------------------------------------------------------------
(* GlobalStore *)

MaxSets == 2                      \* set operations in one behaviour

\* mutant: init on an initialized coordinator initializes it again
InitStoreAgain(c, opts, bc) ==
  /\ options' = [options EXCEPT ![c] = opts]
  /\ strategies' = [strategies EXCEPT ![c] = <<>>]
  /\ tree' = [tree EXCEPT ![c] = loadFromStorage(opts, localStorage)]
  /\ isInitialized' = [isInitialized EXCEPT ![c] = TRUE]
  /\ channel' = [channel EXCEPT
                   ![c] = IF bc THEN OrDefault(opts.storageKey)
                          ELSE NoChannel]
  /\ listening' = [listening EXCEPT ![c] = TRUE]
  /\ last' = Op("init", c, opts.storageKey, Undef, Undef, tree[c], NoCb,
                  FALSE)
  /\ steps' = <<>>
  /\ UNCHANGED <<subscribers, inbox, localStorage, sessionStorage, calls,
                 sets, destroyed>>

\* mutant: init on a destroyed coordinator does nothing
InitStoreOnce(c, opts, bc) ==
  IF isInitialized[c] \/ destroyed[c]
  THEN /\ last' = Op("initWarn", c, opts.storageKey, Undef, Undef, tree[c],
                    NoCb, FALSE)
       /\ steps' = <<>>
       /\ UNCHANGED <<tree, subscribers, strategies, options, isInitialized,
                      channel, inbox, localStorage, sessionStorage, calls,
                      sets, listening, destroyed>>
  ELSE InitStoreAgain(c, opts, bc)

\* mutant: get does not check that the coordinator is initialized
GlobalStoreGetNoGuard(c, key, failAggregate) ==
  LET same   == [ret |-> Undef, data |-> tree[c], local |-> localStorage]
      val    == StorageCoreGet(tree[c], key)
      loaded == loadKey(c, key, localStorage, sessionStorage[c])
  IN IF val # Undef THEN [same EXCEPT !.ret = val]
     ELSE [same EXCEPT !.ret = loaded]

\* GlobalStore.init(options); bc: BroadcastChannel exists in the environment.
\* The storageKey of the options passed is kept in last.key.
InitStore(c, opts, bc) ==
  IF isInitialized[c]
  THEN /\ last' = Op("initWarn", c, opts.storageKey, Undef, Undef, tree[c],
                    NoCb, FALSE)
       /\ steps' = <<>>
       /\ UNCHANGED <<tree, subscribers, strategies, options, isInitialized,
                      channel, inbox, localStorage, sessionStorage, calls,
                      sets, listening, destroyed>>
  ELSE /\ options' = [options EXCEPT ![c] = opts]
       /\ strategies' = [strategies EXCEPT ![c] = <<>>]
       /\ tree' = [tree EXCEPT ![c] = loadFromStorage(opts, localStorage)]
       /\ isInitialized' = [isInitialized EXCEPT ![c] = TRUE]
       /\ channel' = [channel EXCEPT
                        ![c] = IF bc THEN OrDefault(opts.storageKey)
                               ELSE NoChannel]
       /\ listening' = [listening EXCEPT ![c] = TRUE]
       /\ last' = Op("init", c, opts.storageKey, Undef, Undef, tree[c], NoCb,
                  FALSE)
       /\ steps' = <<>>
       /\ UNCHANGED <<subscribers, inbox, localStorage, sessionStorage, calls,
                      sets, destroyed>>

\* mutant: get prefers the per-key item of the storage medium to the Tree
GlobalStoreGetStorageFirst(c, key, failAggregate) ==
  LET same   == [ret |-> Undef, data |-> tree[c], local |-> localStorage]
      val    == StorageCoreGet(tree[c], key)
      loaded == loadKey(c, key, localStorage, sessionStorage[c])
  IN IF ~isInitialized[c] THEN same
     ELSE IF loaded # Undef THEN [same EXCEPT !.ret = loaded]
     ELSE [same EXCEPT !.ret = val]

\* mutant: a value loaded from a per-key item is returned without being
\* written into the Tree
GlobalStoreGetNoHydrate(c, key, failAggregate) ==
  LET same   == [ret |-> Undef, data |-> tree[c], local |-> localStorage]
      val    == StorageCoreGet(tree[c], key)
      loaded == loadKey(c, key, localStorage, sessionStorage[c])
  IN IF ~isInitialized[c] THEN same
     ELSE IF val # Undef THEN [same EXCEPT !.ret = val]
     ELSE [same EXCEPT !.ret = loaded]

\* GlobalStore.get: the value returned, and the Tree and localStorage after
GlobalStoreGet(c, key, failAggregate) ==
  LET same   == [ret |-> Undef, data |-> tree[c], local |-> localStorage]
      val    == StorageCoreGet(tree[c], key)
      loaded == loadKey(c, key, localStorage, sessionStorage[c])
      data2  == StorageCoreSet(tree[c], key, loaded).data
  IN IF ~isInitialized[c] THEN same
     ELSE IF val # Undef THEN [same EXCEPT !.ret = val]
     ELSE IF loaded # Undef
     THEN [ret   |-> loaded,
           data  |-> data2,
           local |-> IF options[c].enablePersistence
                     THEN saveToStorage(options[c], localStorage, data2,
                                        failAggregate)
                     ELSE localStorage]
     ELSE same

Get(c, key, failAggregate) ==
  LET r == GlobalStoreGet(c, key, failAggregate)
  IN /\ tree' = [tree EXCEPT ![c] = r.data]
     /\ localStorage' = r.local
     /\ calls' = <<>>
     /\ last' = Op(IF isInitialized[c] THEN "get" ELSE "getWarn",
                   c, key, Undef, r.ret, tree[c], NoCb, FALSE)
     /\ steps' = <<>>
     /\ UNCHANGED <<subscribers, strategies, options, isInitialized, channel,
                    inbox, sessionStorage, sets, listening, destroyed>>

\* whether persistKey reaches a storage call for the key: the key has a
\* strategy of medium local or session
Persisted(c, key) ==
  /\ findStrategyFor(strategies[c], key) # NoStrategy
  /\ findStrategyFor(strategies[c], key).medium # "memory"

\* the callback invocations of notify as steps: each with the Tree and the
\* storage media that the callback finds when it runs
CallSteps(cs, data, local, session) ==
  [i \in DOMAIN cs |->
     [step |-> "call", call |-> cs[i], data |-> data, local |-> local,
      session |-> session]]

\* mutant: the subscribers are notified right after the Tree is written,
\* before anything is persisted or published
setStepsNotifyFirst(c, key, value, callback, fail, throwers) ==
  LET oldValue == StorageCoreGet(tree[c], key)
      data2    == StorageCoreSet(tree[c], key, value).data
      media    == persistKey(c, key, value, "perKey" \in fail)
      local2   == IF options[c].enablePersistence
                  THEN saveToStorage(options[c], media.local, data2,
                                     "aggregate" \in fail)
                  ELSE media.local
      n        == notify(subscribers[c], key, value, oldValue, data2,
                         callback, throwers)
  IN <<[step |-> "capture", oldValue |-> oldValue],
       [step |-> "write", data |-> data2]>>
     \o CallSteps(n.calls, data2, localStorage, sessionStorage[c])
     \o <<[step |-> "perKey", local |-> media.local,
           session |-> media.session,
           ok |-> ~(Persisted(c, key) /\ "perKey" \in fail)]>>
     \o (IF options[c].enablePersistence
         THEN <<[step |-> "aggregate", local |-> local2,
                 ok |-> "aggregate" \notin fail]>>
         ELSE <<>>)
     \o <<[step |-> "publish", message |-> SetMsg(key, value),
           ok |-> "broadcast" \notin fail]>>

\* the statements of GlobalStore.set in program order (lines 444-465), each
\* with what it leaves behind: the old value captured, the Tree written, the
\* media after persistKey, localStorage after saveToStorage (only when
\* enablePersistence is set), the message handed to broadcast, and the
\* callbacks notify calls; ok: no exception was caught in the statement
setSteps(c, key, value, callback, fail, throwers) ==
  LET oldValue == StorageCoreGet(tree[c], key)
      data2    == StorageCoreSet(tree[c], key, value).data
      media    == persistKey(c, key, value, "perKey" \in fail)
      local2   == IF options[c].enablePersistence
                  THEN saveToStorage(options[c], media.local, data2,
                                     "aggregate" \in fail)
                  ELSE media.local
      n        == notify(subscribers[c], key, value, oldValue, data2,
                         callback, throwers)
  IN <<[step |-> "capture", oldValue |-> oldValue],
       [step |-> "write", data |-> data2],
       [step |-> "perKey", local |-> media.local, session |-> media.session,
        ok |-> ~(Persisted(c, key) /\ "perKey" \in fail)]>>
     \o (IF options[c].enablePersistence
         THEN <<[step |-> "aggregate", local |-> local2,
                 ok |-> "aggregate" \notin fail]>>
         ELSE <<>>)
     \o <<[step |-> "publish", message |-> SetMsg(key, value),
           ok |-> "broadcast" \notin fail]>>
     \o CallSteps(n.calls, data2, local2, media.session)

\* GlobalStore.set(key, value, callback)
\* fail: which of the per-key write, the aggregate write and postMessage
\* throw; throwers: the callbacks that throw when called
Set(c, key, value, callback, fail, throwers) ==
  IF ~isInitialized[c]
  THEN /\ last' = Op("setWarn", c, key, value, Undef, tree[c], callback, FALSE)
       /\ calls' = <<>>
       /\ steps' = <<>>
       /\ UNCHANGED <<tree, subscribers, strategies, options, isInitialized,
                      channel, inbox, localStorage, sessionStorage, sets,
                      listening, destroyed>>
  ELSE LET oldValue == StorageCoreGet(tree[c], key)
           data2    == StorageCoreSet(tree[c], key, value).data
           media    == persistKey(c, key, value, "perKey" \in fail)
           local2   == IF options[c].enablePersistence
                       THEN saveToStorage(options[c], media.local, data2,
                                          "aggregate" \in fail)
                       ELSE media.local
           n        == notify(subscribers[c], key, value, oldValue, data2,
                              callback, throwers)
       IN /\ sets < MaxSets
          /\ sets' = sets + 1
          /\ tree' = [tree EXCEPT ![c] = data2]
          /\ localStorage' = local2
          /\ sessionStorage' = [sessionStorage EXCEPT ![c] = media.session]
          /\ inbox' = broadcast(c, SetMsg(key, value), "broadcast" \in fail)
          /\ calls' = n.calls
          /\ last' = Op("set", c, key, value, oldValue, tree[c], callback,
                        n.threw)
          /\ steps' = setSteps(c, key, value, callback, fail, throwers)
          /\ UNCHANGED <<subscribers, strategies, options, isInitialized,
                         channel, listening, destroyed>>

\* GlobalStore.subscribe
Subscribe(c, key, callback) ==
  /\ subscribers' = [subscribers EXCEPT
                       ![c] = subscribe(subscribers[c], key, callback)]
  /\ calls' = <<>>
  /\ last' = Op("subscribe", c, key, Undef, Undef, tree[c], callback, FALSE)
  /\ steps' = <<>>
  /\ UNCHANGED <<tree, strategies, options, isInitialized, channel, inbox,
                 localStorage, sessionStorage, sets, listening, destroyed>>

\* GlobalStore.unsubscribe, and the handle returned by subscribe
Unsubscribe(c, key, callback) ==
  /\ subscribers' = [subscribers EXCEPT
                       ![c] = unsubscribe(subscribers[c], key, callback)]
  /\ calls' = <<>>
  /\ last' = Op("unsubscribe", c, key, Undef, Undef, tree[c], callback, FALSE)
  /\ steps' = <<>>
  /\ UNCHANGED <<tree, strategies, options, isInitialized, channel, inbox,
                 localStorage, sessionStorage, sets, listening, destroyed>>

\* mutant: an incoming set message is applied and posted again
handleSyncMessageEcho(c, msg, failAggregate, throwers) ==
  LET oldValue == StorageCoreGet(tree[c], msg.key)
      data2    == StorageCoreSet(tree[c], msg.key, msg.value).data
      n        == notify(subscribers[c], msg.key, msg.value, oldValue, data2,
                         NoCb, throwers)
      posted   == broadcast(c, msg, FALSE)
  IN [data  |-> data2,
      local |-> localStorage,
      calls |-> n.calls,
      op    |-> Op("msgSet", c, msg.key, msg.value, oldValue, tree[c], NoCb,
                   n.threw),
      inbox |-> [posted EXCEPT ![c] = Tail(posted[c])]]

\* mutant: an incoming set message does not replace a value held locally
handleSyncMessageKeepLocal(c, msg, failAggregate, throwers) ==
  LET oldValue == StorageCoreGet(tree[c], msg.key)
      data2    == IF oldValue = Undef
                  THEN StorageCoreSet(tree[c], msg.key, msg.value).data
                  ELSE tree[c]
      n        == notify(subscribers[c], msg.key, msg.value, oldValue, data2,
                         NoCb, throwers)
  IN [data  |-> data2,
      local |-> localStorage,
      calls |-> n.calls,
      op    |-> Op("msgSet", c, msg.key, msg.value, oldValue, tree[c], NoCb,
                   n.threw),
      inbox |-> [inbox EXCEPT ![c] = Tail(inbox[c])]]

\* mutant: an incoming set message is applied without notifying subscribers
handleSyncMessageSilent(c, msg, failAggregate, throwers) ==
  LET oldValue == StorageCoreGet(tree[c], msg.key)
      data2    == StorageCoreSet(tree[c], msg.key, msg.value).data
  IN [data  |-> data2,
      local |-> localStorage,
      calls |-> <<>>,
      op    |-> Op("msgSet", c, msg.key, msg.value, oldValue, tree[c], NoCb,
                   FALSE),
      inbox |-> [inbox EXCEPT ![c] = Tail(inbox[c])]]

\* mutant: a clearAppData message clears the Tree whatever its appStorageKey
handleSyncMessageClearAny(c, msg, failAggregate, throwers) ==
  IF msg.type = "clearAppData"
  THEN [data  |-> EmptyObj,
        local |-> IF options[c].enablePersistence
                  THEN saveToStorage(options[c], localStorage, EmptyObj,
                                     failAggregate)
                  ELSE localStorage,
        calls |-> <<>>,
        op    |-> Op("msgClear", c, msg.key, Undef, Undef, tree[c], NoCb,
                     FALSE),
        inbox |-> [inbox EXCEPT ![c] = Tail(inbox[c])]]
  ELSE LET oldValue == StorageCoreGet(tree[c], msg.key)
           data2    == StorageCoreSet(tree[c], msg.key, msg.value).data
           n        == notify(subscribers[c], msg.key, msg.value, oldValue,
                              data2, NoCb, throwers)
       IN [data  |-> data2,
           local |-> IF options[c].enablePersistence
                     THEN saveToStorage(options[c], localStorage, data2,
                                        failAggregate)
                     ELSE localStorage,
           calls |-> n.calls,
           op    |-> Op("msgSet", c, msg.key, msg.value, oldValue, tree[c],
                        NoCb, n.threw),
           inbox |-> [inbox EXCEPT ![c] = Tail(inbox[c])]]

\* GlobalStore.handleSyncMessage(msg): the Tree, localStorage, calls, the
\* record of the operation and the inboxes after the handler has run
handleSyncMessage(c, msg, failAggregate, throwers) ==
  LET rest == [inbox EXCEPT ![c] = Tail(inbox[c])]
  IN IF msg.type = "set" /\ msg.key # <<>>
     THEN LET oldValue == StorageCoreGet(tree[c], msg.key)
              data2    == StorageCoreSet(tree[c], msg.key, msg.value).data
              n        == notify(subscribers[c], msg.key, msg.value, oldValue,
                                 data2, NoCb, throwers)
          IN [data  |-> data2,
              local |-> IF options[c].enablePersistence
                        THEN saveToStorage(options[c], localStorage, data2,
                                           failAggregate)
                        ELSE localStorage,
              calls |-> n.calls,
              op    |-> Op("msgSet", c, msg.key, msg.value, oldValue, tree[c],
                           NoCb, n.threw),
              inbox |-> rest]
     ELSE IF /\ msg.type = "clearAppData" /\ msg.key # <<>>
             /\ msg.key = options[c].storageKey
     THEN [data  |-> EmptyObj,
           local |-> IF options[c].enablePersistence
                     THEN saveToStorage(options[c], localStorage, EmptyObj,
                                        failAggregate)
                     ELSE localStorage,
           calls |-> <<>>,
           op    |-> Op("msgClear", c, msg.key, Undef, Undef, tree[c], NoCb,
                        FALSE),
           inbox |-> rest]
     ELSE [data  |-> tree[c],
           local |-> localStorage,
           calls |-> <<>>,
           op    |-> Op("msgIgnored", c, msg.key, msg.value, Undef, tree[c],
                        NoCb, FALSE),
           inbox |-> rest]

\* channel.onmessage: the oldest message posted to c is handled
OnMessage(c, failAggregate, throwers) ==
  /\ inbox[c] # <<>>
  /\ LET r == handleSyncMessage(c, Head(inbox[c]), failAggregate, throwers)
     IN /\ tree' = [tree EXCEPT ![c] = r.data]
        /\ localStorage' = r.local
        /\ calls' = r.calls
        /\ last' = r.op
        /\ inbox' = r.inbox
  /\ steps' = <<>>
  /\ UNCHANGED <<subscribers, strategies, options, isInitialized, channel,
                 sessionStorage, sets, listening, destroyed, bundleInstance,
                 windowGlobalStore>>

----------------------------------------------------------------------------
(* The coordinator of one context, with persistence and its failures *)

Failures == {"perKey", "aggregate", "broadcast"}

NoPersistence == [DefaultOptions EXCEPT !.enablePersistence = FALSE]

StoreOptions    == {DefaultOptions, NoPersistence}
StoreKeys       == {Kab, KaDot}
StoreValues     == {One, ObjB1, Undef}
StorePrefixes   == {Ka}
StoreStrategies == {Strategy("local", FALSE), Strategy("session", TRUE)}

NextStore ==
  \/ Direct /\ \E o \in StoreOptions, bc \in BOOLEAN : InitStore("A", o, bc)
  \/ Direct /\ InitStore("B", DefaultOptions, TRUE)
  \/ Direct /\ \E p \in StorePrefixes, st \in StoreStrategies :
       ConfigureStrategy("A", p, st)
  \/ Direct /\ \E k \in StoreKeys, v \in StoreValues, fail \in SUBSET Failures :
       Set("A", k, v, NoCb, fail, {})
  \/ Direct /\ \E k \in StoreKeys, f \in BOOLEAN : Get("A", k, f)
  \/ OnMessage("B", FALSE, {})

SpecStore == Init /\ [][NextStore]_vars

----------------------------------------------------------------------------
(* The coordinator of one context, with subscribers and throwing callbacks *)

MaxSubs == 3                      \* (path, callback) pairs registered at once

\* the (path, callback) pairs that are ever subscribed: f and g on a.b,
\* g on its ancestor a, f on its descendant a.b.c and on the unrelated z
SubPairs     == {<<Ka, "g">>, <<Kab, "f">>, <<Kab, "g">>, <<Kabc, "f">>,
                 <<Kz, "f">>}
NotifyKeys   == {Kab, Kabc, KaDot}
NotifyValues == {One, Undef}

\* number of (path, callback) pairs registered in context c
NumPairs(c) ==
  LET RECURSIVE Sum(_)
      Sum(K) == IF K = {} THEN 0
                ELSE LET k == CHOOSE x \in K : TRUE
                     IN Len(subscribers[c][k]) + Sum(K \ {k})
  IN Sum(DOMAIN subscribers[c])

SubscribedTo(c, key) ==
  IF key \in DOMAIN subscribers[c]
  THEN {subscribers[c][key][i] : i \in DOMAIN subscribers[c][key]}
  ELSE {}

NextNotify ==
  \/ Direct /\ InitStore("A", DefaultOptions, FALSE)
  \/ Direct /\ \E sp \in SubPairs :
       NumPairs("A") < MaxSubs /\ Subscribe("A", sp[1], sp[2])
  \/ Direct /\ \E sp \in SubPairs :
       sp[2] \in SubscribedTo("A", sp[1]) /\ Unsubscribe("A", sp[1], sp[2])
  \/ Direct /\ \E k \in NotifyKeys, v \in NotifyValues,
                  cb \in Callbacks \cup {NoCb}, thr \in SUBSET Callbacks :
       Set("A", k, v, cb, {}, thr)

SpecNotify == Init /\ [][NextNotify]_vars

\* the strict ancestor paths of a key: its proper non-empty segment prefixes
Ancestors(key) ==
  {join(SubSeq(split(key), 1, i)) : i \in 1..(Len(split(key)) - 1)}

\* positions of the calls of callback cb with first argument key
CallsOf(cb, key) == {i \in DOMAIN calls : calls[i].cb = cb /\ calls[i].key = key}

\* the callbacks due for the key of the last set, each called exactly once
\* with the arguments of the notification fan-out, in its order
FanOut ==
  LET c   == last.ctx
      k   == last.key
      old == StorageCoreGet(last.before, k)
      due == SubscribedTo(c, k) \cup ({last.cb} \ {NoCb})
  IN /\ \A cb \in due :
          /\ Cardinality(CallsOf(cb, k)) = 1
          /\ \A i \in CallsOf(cb, k) :
               calls[i].new = last.value /\ calls[i].old = old
     /\ \A a \in Ancestors(k) : \A cb \in SubscribedTo(c, a) :
          /\ Cardinality(CallsOf(cb, a)) = 1
          /\ \A i \in CallsOf(cb, a) :
               /\ calls[i].new = StorageCoreGet(tree[c], a)
               /\ calls[i].old = old
     \* nothing else is called: unrelated paths, descendants
     /\ \A i \in DOMAIN calls :
          \/ calls[i].key = k /\ calls[i].cb \in due
          \/ /\ calls[i].key \in Ancestors(k)
             /\ calls[i].cb \in SubscribedTo(c, calls[i].key)
     \* exact path first, then the ancestors from the nearest parent upwards
     /\ \A i, j \in DOMAIN calls :
          i < j => \/ calls[i].key = k
                   \/ /\ calls[j].key # k
                      /\ Len(calls[i].key) >= Len(calls[j].key)

\* C8: set(k, v) invokes every callback subscribed to exactly k once with
\* (k, v, old value of k), then for each strict ancestor of k, nearest parent
\* first, every callback of the ancestor once with (ancestor, the ancestor's
\* value read after the write, the old value of the leaf k); callbacks
\* subscribed only to unrelated paths or to descendants are not invoked.
C8_FanOut == (last.op = "set") => FanOut

\* set('a.b', v) with a.b present before, subscribers on a.b, on its
\* ancestor a and on its descendant a.b.c
C8_Witness ==
  /\ last.op = "set" /\ last.key = Kab /\ last.cb = NoCb
  /\ StorageCoreGet(last.before, Kab) # Undef
  /\ StorageCoreGet(last.before, Kab) # StorageCoreGet(last.before, Ka)
  /\ DOMAIN subscribers["A"] = {Ka, Kab, Kabc}
  /\ Len(calls) = 2 /\ calls[1].key = Kab /\ calls[2].key = Ka

\* C9: set(key, value, cb) where cb is also subscribed to key invokes cb
\* exactly once for the key, first, before every other subscriber of key
\* (and once more only for each ancestor of key that cb is subscribed to).
C9_ImmediateOnce ==
  (last.op = "set" /\ last.cb # NoCb
     /\ last.cb \in SubscribedTo(last.ctx, last.key))
    => /\ Cardinality(CallsOf(last.cb, last.key)) = 1
       /\ calls[1].cb = last.cb /\ calls[1].key = last.key
       /\ Cardinality({i \in DOMAIN calls : calls[i].cb = last.cb})
            = 1 + Cardinality({a \in Ancestors(last.key) :
                                 last.cb \in SubscribedTo(last.ctx, a)})

\* set('a.b', v, g) where g is subscribed to a.b after f
C9_Witness ==
  /\ last.op = "set" /\ last.key = Kab /\ last.cb = "g"
  /\ Kab \in DOMAIN subscribers["A"]
  /\ subscribers["A"][Kab] = <<"f", "g">>
  /\ Len(calls) = 2

\* C10: if a callback (immediate, exact-path or ancestor) throws during a
\* notification, every other callback due for the change is still invoked,
\* set returns normally and the Tree holds the result of the write.
C10_Isolation ==
  (last.op = "set" /\ \E i \in DOMAIN calls : calls[i].threw)
    => /\ FanOut
       /\ ~last.threw
       /\ tree[last.ctx] = setNestedValue(last.before, last.key, last.value)
       /\ LastSegNonEmpty(last.key)
            => StorageCoreGet(tree[last.ctx], last.key) = last.value

\* the immediate callback f throws; g on the exact path and on the parent
\* are still called
C10_Witness ==
  /\ last.op = "set" /\ last.key = Kab /\ last.cb = "f"
  /\ Len(calls) = 3
  /\ calls[1].threw /\ ~calls[2].threw /\ ~calls[3].threw
  /\ calls[3].key = Ka

----------------------------------------------------------------------------
(* Two contexts bound to the same storageKey, sharing the sync channel *)

SyncKeys     == {Ka, KaDot, KEmpty}
SyncValues   == {One, Two, Undef}
SyncSubPairs == {<<Ka, "f">>, <<KaDot, "g">>}

Handle(c) == \E thr \in SUBSET {"f"} : OnMessage(c, FALSE, thr)

NextSync ==
  \/ Direct /\ \E c \in Ctx :
       ~isInitialized[c] /\ InitStore(c, DefaultOptions, TRUE)
  \/ Direct /\ \E sp \in SyncSubPairs : Subscribe("B", sp[1], sp[2])
  \/ Direct /\ \E c \in Ctx, k \in SyncKeys, v \in SyncValues :
       (\A d \in Ctx : isInitialized[d]) /\ Set(c, k, v, NoCb, {}, {})
  \/ \E c \in Ctx : Handle(c)

SpecSync == Init /\ [][NextSync]_vars

\* the event loop of a context runs the handler of every posted message
SpecSyncFair == SpecSync /\ \A c \in Ctx : WF_vars(Handle(c))

Quiescent == \A c \in Ctx : inbox[c] = <<>>

\* context d has just handled the message set(k, v): every subscriber of k
\* in d was called once with (k, v, d's previous value of k)
Delivered(d, k, v) ==
  /\ last.op = "msgSet" /\ last.ctx = d /\ last.key = k /\ last.value = v
  /\ \A cb \in SubscribedTo(d, k) :
       /\ Cardinality(CallsOf(cb, k)) = 1
       /\ \A i \in CallsOf(cb, k) :
            /\ calls[i].new = v
            /\ calls[i].old = StorageCoreGet(last.before, k)

\* a set by A posts its message to B
PostedToB ==
  (sets' # sets /\ last'.ctx = "A")
    => inbox'["B"] = Append(inbox["B"], SetMsg(last'.key, last'.value))

\* B handles the oldest message posted to it
HandledByB == inbox["B"] # <<>> /\ inbox'["B"] = Tail(inbox["B"])

NoEchoStep ==
  /\ sets' = sets
       => \A d \in Ctx :
            \/ inbox'[d] = inbox[d]
            \/ inbox[d] # <<>> /\ inbox'[d] = Tail(inbox[d])
  /\ sets' # sets
       => /\ inbox'[last'.ctx] = inbox[last'.ctx]
          /\ \A d \in Ctx :
               \/ inbox'[d] = inbox[d]
               \/ inbox'[d] = Append(inbox[d], SetMsg(last'.key, last'.value))

----------------------------------------------------------------------------
(* clear, clearAppData, destroy and the storage listener *)

\* how the storage medium fails during PersistenceManager.clearAppData:
\* removeItem of the aggregate throws, Object.keys of a medium throws, or
\* removeItem of every prefixed item throws
ClearFailures == {"none", "aggregate", "scanLocal", "scanSession", "items"}

removePrefixed(store, storagePrefix) ==
  [k \in {x \in DOMAIN store : ~startsWith(x, storagePrefix)} |-> store[k]]

\* mutant: every item of both media is removed
clearAppDataAll(appStorageKey, local, session, fail) ==
  [local |-> EmptyMap, session |-> EmptyMap]

\* PersistenceManager.clearAppData: the media after the call
clearAppData(appStorageKey, local, session, fail) ==
  LET storagePrefix == appStorageKey \o <<":">>
      local1 == removeItem(local, appStorageKey)
      local2 == removePrefixed(local1, storagePrefix)
  IN IF fail = "aggregate" THEN [local |-> local, session |-> session]
     ELSE IF fail = "scanLocal" THEN [local |-> local1, session |-> session]
     ELSE IF fail = "items" THEN [local |-> local1, session |-> session]
     ELSE IF fail = "scanSession" THEN [local |-> local2, session |-> session]
     ELSE [local |-> local2,
           session |-> removePrefixed(session, storagePrefix)]

\* GlobalStore.clearAppData(appStorageKey)
ClearAppData(c, appStorageKey, fail, failBroadcast) ==
  LET isCurrentApp == appStorageKey = options[c].storageKey
      media == clearAppData(appStorageKey, localStorage, sessionStorage[c],
                            fail)
  IN /\ tree' = [tree EXCEPT ![c] = IF isCurrentApp THEN EmptyObj ELSE @]
     /\ localStorage' = media.local
     /\ sessionStorage' = [sessionStorage EXCEPT ![c] = media.session]
     /\ inbox' = broadcast(c, ClearMsg(appStorageKey), failBroadcast)
     /\ calls' = <<>>
     /\ last' = OpF("clearAppData", c, appStorageKey, Undef, Undef, tree[c],
                    NoCb, FALSE, fail)
     /\ steps' = <<>>
     /\ UNCHANGED <<subscribers, strategies, options, isInitialized, channel,
                    sets, listening, destroyed>>

\* GlobalStore.clear()
Clear(c, failAggregate) ==
  /\ tree' = [tree EXCEPT ![c] = EmptyObj]
  /\ localStorage' = IF options[c].enablePersistence
                     THEN saveToStorage(options[c], localStorage, EmptyObj,
                                        failAggregate)
                     ELSE localStorage
  /\ calls' = <<>>
  /\ last' = OpF("clear", c, KEmpty, Undef, Undef, tree[c], NoCb, FALSE,
                 IF failAggregate THEN "aggregate" ELSE "none")
  /\ steps' = <<>>
  /\ UNCHANGED <<subscribers, strategies, options, isInitialized, channel,
                 inbox, sessionStorage, sets, listening, destroyed>>

\* GlobalStore.destroy(); failRemove: localStorage.removeItem throws.  A
\* closed channel receives nothing: the messages posted to it are dropped.
Destroy(c, failRemove) ==
  LET removes == options[c].enablePersistence /\ options[c].storageKey # <<>>
  IN /\ tree' = [tree EXCEPT ![c] = EmptyObj]
     /\ subscribers' = [subscribers EXCEPT ![c] = EmptyMap]
     /\ channel' = [channel EXCEPT ![c] = NoChannel]
     /\ inbox' = [inbox EXCEPT ![c] = <<>>]
     /\ isInitialized' = [isInitialized EXCEPT ![c] = FALSE]
     /\ destroyed' = [destroyed EXCEPT ![c] = TRUE]
     /\ localStorage' = IF removes /\ ~failRemove
                        THEN removeItem(localStorage, options[c].storageKey)
                        ELSE localStorage
     /\ calls' = <<>>
     /\ last' = OpF("destroy", c, KEmpty, Undef, Undef, tree[c], NoCb,
                    removes /\ failRemove,
                    IF failRemove THEN "aggregate" ELSE "none")
     /\ steps' = IF /\ removes /\ ~failRemove
                    /\ options[c].storageKey \in DOMAIN localStorage
                 THEN <<[step |-> "remove", key |-> options[c].storageKey]>>
                 ELSE <<>>
     /\ UNCHANGED <<strategies, options, sessionStorage, sets, listening,
                    bundleInstance, windowGlobalStore>>

\* e.newValue of a storage event for a removed item
NullString == [fmt |-> "null", v |-> Undef]
\* the empty string
EmptyString == [fmt |-> "raw", v |-> Undef]

\* the listener installed by setupStorageListener, run on a storage event
\* (e.key, e.newValue) fired by a write of another context
OnStorage(c, eKey, newValue) ==
  LET str      == IF newValue = NullString
                  THEN IF options[c].enableEncryption THEN EmptyString
                       ELSE JSONstringify(EmptyObj)
                  ELSE newValue
      parsed   == JSONparse(str)
      threw    == ~options[c].enableEncryption /\ ~parsed.ok
      incoming == IF options[c].enableEncryption THEN decryptObject(str)
                  ELSE parsed.v
      mine     == eKey # <<>> /\ eKey = OrDefault(options[c].storageKey)
  IN /\ listening[c]
     /\ tree' = [tree EXCEPT
                   ![c] = IF /\ mine /\ ~threw
                             /\ ~Falsy(incoming) /\ TypeofObject(incoming)
                          THEN incoming ELSE @]
     /\ calls' = <<>>
     /\ last' = Op("storage", c, eKey, incoming, Undef, tree[c], NoCb, FALSE)
     /\ steps' = <<>>
     /\ UNCHANGED <<subscribers, strategies, options, isInitialized, channel,
                    inbox, localStorage, sessionStorage, sets, listening,
                    destroyed, bundleInstance, windowGlobalStore>>

----------------------------------------------------------------------------
(* Coordinators with distinct storageKeys over the same storage media *)

StoreSX == <<"S", ":", "x">>      \* a storageKey that starts with "S:"
Kx      == <<"x">>

StorageKeys     == {StoreS, StoreT, StoreSX}
ClearOptions    == {[DefaultOptions EXCEPT !.storageKey = k] :
                      k \in {StoreT, StoreSX}}
\* the strategies each context registers, and the keys it sets
ClearConfigs ==
  {<<"A", Kx, Strategy("local", FALSE)>>,
   <<"A", Ka, Strategy("session", TRUE)>>,
   <<"B", Ka, Strategy("local", FALSE)>>,
   <<"B", Ka, Strategy("session", TRUE)>>}
ClearSets == {<<"A", Ka>>, <<"A", Kx>>, <<"B", Ka>>}

NextClear ==
  \/ Direct /\ ~isInitialized["A"] /\ InitStore("A", DefaultOptions, TRUE)
  \/ Direct /\ \E o \in ClearOptions :
       ~isInitialized["B"] /\ InitStore("B", o, TRUE)
  \/ Direct /\ \E cf \in ClearConfigs :
       isInitialized[cf[1]] /\ ConfigureStrategy(cf[1], cf[2], cf[3])
  \/ Direct /\ \E ck \in ClearSets :
       isInitialized[ck[1]] /\ Set(ck[1], ck[2], One, NoCb, {}, {})
  \/ Direct /\ \E c \in Ctx, k \in StorageKeys, fail \in ClearFailures :
       ClearAppData(c, k, fail, FALSE)

SpecClear == Init /\ [][NextClear]_vars

\* item k is a per-key item of storageKey
Prefixed(k, storageKey) == startsWith(k, storageKey \o <<":">>)

\* after the step the aggregate item of storageKey is gone and none of its
\* per-key items is left in the media of context c
Removed(c, storageKey) ==
  /\ storageKey \notin DOMAIN localStorage'
  /\ \A k \in DOMAIN localStorage' \cup DOMAIN sessionStorage'[c] :
       ~Prefixed(k, storageKey)

\* the step leaves the aggregate item of storageKey and every per-key item
\* of storageKey in the media of c as it was
Untouched(c, storageKey) ==
  /\ \A k \in DOMAIN localStorage :
       (k = storageKey \/ Prefixed(k, storageKey))
         => k \in DOMAIN localStorage' /\ localStorage'[k] = localStorage[k]
  /\ \A k \in DOMAIN sessionStorage[c] :
       Prefixed(k, storageKey)
         => /\ k \in DOMAIN sessionStorage'[c]
            /\ sessionStorage'[c][k] = sessionStorage[c][k]

----------------------------------------------------------------------------
(* The lifecycle of one coordinator (context A) with a peer B on the channel *)

OptionsT == [DefaultOptions EXCEPT !.storageKey = StoreT]

LifeOptions   == {DefaultOptions, OptionsT}
LifeFailures  == {{}, {"perKey", "aggregate"}}
LifeClearKeys == {StoreS, StoreT}
LifeEvents    ==
  {<<StoreS, NullString>>, <<StoreS, encryptObject(ObjB1)>>,
   <<StoreS, JSONstringify(EmptyObj)>>, <<StoreT, encryptObject(ObjB1)>>}

MaxInbox == 1                     \* messages posted and not yet handled

NextLife ==
  \/ Direct /\ \E o \in LifeOptions : InitStore("A", o, TRUE)
  \/ Direct /\ ~isInitialized["B"] /\ InitStore("B", DefaultOptions, TRUE)
  \/ Direct /\ ConfigureStrategy("A", Ka, Strategy("local", FALSE))
  \/ Direct /\ Subscribe("A", Ka, "f")
  \/ Direct /\ \E cb \in {NoCb, "f"}, fail \in LifeFailures :
       Len(inbox["B"]) < MaxInbox /\ Set("A", Ka, One, cb, fail, {})
  \/ Direct /\ Get("A", Ka, FALSE)
  \/ Direct /\ \E f \in BOOLEAN : Clear("A", f)
  \/ Direct /\ \E k \in LifeClearKeys, fail \in {"none", "aggregate"} :
       Len(inbox["B"]) < MaxInbox /\ ClearAppData("A", k, fail, FALSE)
  \/ \E f \in BOOLEAN : Destroy("A", f)
  \/ \E e \in LifeEvents : OnStorage("A", e[1], e[2])
  \/ OnMessage("B", FALSE, {})

SpecLife == Init /\ [][NextLife]_vars

\* after the step every callback of every subscribed path of c has been
\* called with (path, valueOf[path], undefined)
AllNotified(c, valueOf) ==
  \A k \in DOMAIN subscribers[c] :
    \A cb \in SubscribedTo(c, k) :
      \E i \in DOMAIN calls' :
        /\ calls'[i].cb = cb /\ calls'[i].key = k
        /\ calls'[i].new = valueOf[k] /\ calls'[i].old = Undef

\* the contexts that receive what c posts
Peers(c) ==
  {d \in Ctx \ {c} : channel[c] # NoChannel /\ channel[d] = channel[c]}

\* C12: clearAppData(appStorageKey) with appStorageKey equal to the
\* instance's own storageKey clears the local Tree and calls the subscribers
\* of every subscribed path with (key, undefined, undefined); whether or not
\* the key matches, it removes the persisted items of appStorageKey and
\* posts a clearAppData message to the other contexts.
C12_ClearAppDataNotifies ==
  [][last'.op = "clearAppData" =>
       /\ last'.key = options[last'.ctx].storageKey
            => /\ tree'[last'.ctx] = EmptyObj
               /\ AllNotified(last'.ctx,
                              [k \in DOMAIN subscribers[last'.ctx] |-> Undef])
       /\ last'.fail = "none" => Removed(last'.ctx, last'.key)
       /\ \A d \in Peers(last'.ctx) :
            inbox'[d] = Append(inbox[d], ClearMsg(last'.key))]_vars

\* C13: a storage event for the aggregate item storageKey replaces the Tree
\* wholesale by the decoded aggregate blob and calls every callback of every
\* subscribed path with (key, current value of key, undefined); an event for
\* any other item leaves the Tree unchanged and calls nothing.
C13_StorageEventNotifies ==
  [][last'.op = "storage" =>
       IF last'.key = OrDefault(options[last'.ctx].storageKey)
       THEN /\ tree'[last'.ctx] = last'.value
            /\ AllNotified(last'.ctx,
                           [k \in DOMAIN subscribers[last'.ctx] |->
                              StorageCoreGet(tree'[last'.ctx], k)])
       ELSE tree' = tree /\ calls' = <<>>]_vars


\* C14: init called on an already initialized coordinator is a no-op:
\* options (including storageKey), Tree, registered strategies, subscribers
\* and the sync channel are the same as before the call, nothing is written
\* to the storage media, and the call does not throw.
C14_InitNoOp ==
  [][(last'.op \in {"init", "initWarn"} /\ isInitialized[last'.ctx]) =>
       /\ steps' = <<>>
       /\ UNCHANGED <<options, tree, strategies, subscribers, channel,
                      isInitialized, inbox, localStorage, sessionStorage,
                      bundleInstance, windowGlobalStore>>
       /\ ~last'.threw]_vars

\* init({storageKey: 'T'}) was called on the initialized coordinator A, which
\* keeps its storageKey 'S', its data, its strategy and its subscriber
C14_Witness ==
  /\ last.op = "initWarn" /\ last.ctx = "A" /\ last.key = StoreT
  /\ options["A"].storageKey = StoreS /\ isInitialized["A"]
  /\ tree["A"] # EmptyObj /\ strategies["A"] # <<>>
  /\ "f" \in SubscribedTo("A", Ka)

\* C15: while the coordinator is not initialized, get returns absent and set
\* does nothing: set changes neither the Tree nor any storage item, posts no
\* sync message and calls no callback, not even the immediate callback;
\* neither operation throws.
C15_NotInitialized ==
  [][~isInitialized[last'.ctx] =>
       /\ last'.op \in {"get", "getWarn"}
            => last'.ret = Undef /\ ~last'.threw
       /\ last'.op \in {"set", "setWarn"}
            => /\ UNCHANGED <<tree, localStorage, sessionStorage, inbox>>
               /\ calls' = <<>>
               /\ ~last'.threw]_vars

\* set('a', 1, f) on the destroyed coordinator A, which has a strategy for
\* 'a', a per-key item of an earlier set and f subscribed to 'a' again
C15_Witness ==
  /\ last.op = "setWarn" /\ last.ctx = "A" /\ last.cb = "f"
  /\ ~isInitialized["A"] /\ destroyed["A"]
  /\ "f" \in SubscribedTo("A", Ka)
  /\ strategies["A"] # <<>>
  /\ makeItemKey(options["A"], Ka) \in DOMAIN localStorage


\* C16: a strategy registered with configureStrategy before init is still
\* in force after init: every key resolves after init to the strategy it
\* resolved to before, so that a later set of a matching key is persisted
\* per that strategy and a later get is hydrated per it.
C16_StrategySurvivesInit ==
  [][(last'.op = "init" /\ ~isInitialized[last'.ctx]) =>
       \A k \in {Ka, Kab} :
         findStrategyFor(strategies'[last'.ctx], k)
           = findStrategyFor(strategies[last'.ctx], k)]_vars

\* C17: destroy() wipes the Tree, removes every subscriber, closes the sync
\* channel and removes the aggregate item; a following init() yields an
\* initialized coordinator whose Tree is empty (get returns absent), which
\* has none of the callbacks registered before the destroy.
C17_DestroyThenInit ==
  [][/\ last'.op = "destroy" =>
          /\ tree'[last'.ctx] = EmptyObj
          /\ subscribers'[last'.ctx] = EmptyMap
          /\ channel'[last'.ctx] = NoChannel
          /\ options[last'.ctx].storageKey \notin DOMAIN localStorage'
     /\ (/\ last.op = "destroy" /\ last'.op \in {"init", "initWarn"}
         /\ last'.ctx = last.ctx) =>
          /\ isInitialized'[last'.ctx]
          /\ tree'[last'.ctx] = EmptyObj
          /\ \A c \in {last.ctx} : GlobalStoreGet(c, Ka, FALSE).ret' = Undef
          /\ subscribers'[last'.ctx] = EmptyMap]_vars

\* C18 (as stated): the lifecycle is Uninitialized -> Initialized ->
\* Destroyed with Destroyed terminal: once destroy() has been called on an
\* instance no later operation brings it back to Initialized.
C18_DestroyedTerminal ==
  \A c \in Ctx : destroyed[c] => ~isInitialized[c]

\* C18 (amended): the lifecycle is Uninitialized -> Initialized ->
\* Uninitialized again on destroy: destroy() leaves the instance not
\* initialized, a later init() on the destroyed instance brings it back to
\* Initialized, and no operation other than init and destroy changes
\* whether the instance is initialized.
C18_DestroyedReusable ==
  [][/\ last'.op = "destroy" =>
          ~isInitialized'[last'.ctx] /\ destroyed'[last'.ctx]
     /\ last'.op \in {"init", "initWarn"} => isInitialized'[last'.ctx]
     /\ \A c \in Ctx :
          isInitialized'[c] # isInitialized[c]
            => last'.ctx = c /\ last'.op \in {"init", "destroy"}]_vars

\* the destroyed coordinator A has been initialized again
C18_Witness ==
  /\ last.op = "init" /\ last.ctx = "A"
  /\ destroyed["A"] /\ isInitialized["A"]

\* C20: when an operation of a storage medium fails, no public operation
\* (init, get, set, clear, clearAppData, destroy) propagates an exception,
\* and for set the in-memory write, the broadcast and the notifications
\* still take place.
C20_NoThrow ==
  [][/\ ~last'.threw
     /\ last'.op = "set" =>
          /\ tree'[last'.ctx]
               = StorageCoreSet(tree[last'.ctx], last'.key, last'.value).data
          /\ \A d \in Peers(last'.ctx) :
               inbox'[d] = Append(inbox[d], SetMsg(last'.key, last'.value))
          /\ \A cb \in SubscribedTo(last'.ctx, last'.key) :
               \E i \in DOMAIN calls' :
                 calls'[i].cb = cb /\ calls'[i].key = last'.key]_vars


\* C21: after clear() on an initialized coordinator, get(k) returns absent
\* for every key k (here: the get that follows the clear at once, before any
\* set, sync message or storage event).
C21_ClearThenGetAbsent ==
  [][(last'.op = "clear" /\ isInitialized[last'.ctx]) =>
       \A c \in {last'.ctx} :
         \A k \in {Ka, Kab, Kz} : GlobalStoreGet(c, k, FALSE).ret' = Undef]_vars

\* C25: get(key) of an initialized coordinator returns the Tree value when
\* there is one, changing nothing; on a miss it loads the per-key item, and
\* when that yields a value it writes the value into the Tree, saves the
\* aggregate if enablePersistence is set, and returns it, so that the next
\* get(key) finds the same value in the Tree; when nothing is loaded it
\* returns absent and changes nothing.  A get, hydrating or not, calls no
\* subscriber and posts no message.
C25_GetHydrates ==
  [][last'.op = "get" =>
       \A c \in {last'.ctx}, key \in {last'.key} :
         LET val    == StorageCoreGet(tree[c], key)
             loaded == loadKey(c, key, localStorage, sessionStorage[c])
         IN /\ calls' = <<>>
            /\ inbox' = inbox
            /\ subscribers' = subscribers
            /\ sessionStorage' = sessionStorage
            /\ val # Undef =>
                 /\ last'.ret = val
                 /\ tree' = tree /\ localStorage' = localStorage
            /\ (val = Undef /\ loaded = Undef) =>
                 /\ last'.ret = Undef
                 /\ tree' = tree /\ localStorage' = localStorage
            /\ (val = Undef /\ loaded # Undef) =>
                 /\ last'.ret = loaded
                 /\ tree'[c] = StorageCoreSet(tree[c], key, loaded).data
                 /\ StorageCoreGet(tree'[c], key) = loaded
                 /\ GlobalStoreGet(c, key, FALSE).ret' = loaded
                 /\ OthersKept(localStorage, localStorage',
                               options[c].storageKey)
                 /\ IF options[c].enablePersistence
                    THEN loadFromStorage(options[c], localStorage')
                           = tree'[c]
                    ELSE localStorage' = localStorage]_vars

\* a get('a') that missed in the Tree and was served from the per-key item:
\* the Tree and the aggregate item now hold the value, the subscriber f of
\* 'a' was not called and nothing was posted to B
C25_Witness ==
  /\ last.op = "get" /\ last.ctx = "A" /\ last.key = Ka
  /\ StorageCoreGet(last.before, Ka) = Undef
  /\ last.ret = One
  /\ StorageCoreGet(tree["A"], Ka) = One
  /\ loadFromStorage(options["A"], localStorage) = tree["A"]
  /\ SubscribedTo("A", Ka) # {}
  /\ calls = <<>>
  /\ channel["B"] = channel["A"] /\ inbox["B"] = <<>>

----------------------------------------------------------------------------
(* Keys of medium memory *)

MemoryStrategies == {Strategy("memory", FALSE), Strategy("local", FALSE)}
MemoryKeys       == {Kab, Kz}
MemoryValues     == {One, Undef}

NextMemory ==
  \/ Direct /\ \E o \in StoreOptions :
       ~isInitialized["A"] /\ InitStore("A", o, TRUE)
  \/ Direct /\ ~isInitialized["B"] /\ InitStore("B", DefaultOptions, TRUE)
  \/ Direct /\ \E st \in MemoryStrategies :
       isInitialized["A"] /\ ConfigureStrategy("A", Ka, st)
  \/ Direct /\ Subscribe("A", Kab, "f")
  \/ Direct /\ \E k \in MemoryKeys, v \in MemoryValues,
        fail \in SUBSET {"aggregate"} :
       Set("A", k, v, NoCb, fail, {})
  \/ OnMessage("B", FALSE, {})

SpecMemory == Init /\ [][NextMemory]_vars

\* the step is a set by an initialized coordinator of a key whose resolved
\* strategy has medium memory
MemorySet ==
  /\ last'.op = "set"
  /\ findStrategyFor(strategies[last'.ctx], last'.key) # NoStrategy
  /\ findStrategyFor(strategies[last'.ctx], last'.key).medium = "memory"

----------------------------------------------------------------------------
(* The facade of the store module (lines 773-878 of the source file): each *)
(* bundle loads its own copy of the module, with its own                   *)
(* globalStoreInstance; window.globalStore is shared by the context.       *)
(* The instances constructed in the context are the stores A and B, in     *)
(* this order.  No session strategy is registered here, the two instances  *)
(* of one context would share the session-scoped storage.                  *)

\* new GlobalStore(): the first instance constructed is A, the second B
NewStore == IF \A b \in Bundle : bundleInstance[b] # "A" THEN "A" ELSE "B"

\* getGlobalStore() of the copy of bundle b: the instance returned, and the
\* module variables and window.globalStore after the call
getGlobalStore(b) ==
  IF bundleInstance[b] = NoStore
  THEN [store     |-> NewStore,
        instances |-> [bundleInstance EXCEPT ![b] = NewStore],
        window    |-> NewStore]
  ELSE [store     |-> bundleInstance[b],
        instances |-> bundleInstance,
        window    |-> windowGlobalStore]

\* getStore() of the copy of bundle b
getStore(b) ==
  IF windowGlobalStore # NoStore
  THEN [store     |-> windowGlobalStore,
        instances |-> bundleInstance,
        window    |-> windowGlobalStore]
  ELSE getGlobalStore(b)

\* the effect of the lookup g on the variables of the facade
Via(g) ==
  /\ bundleInstance' = g.instances
  /\ windowGlobalStore' = g.window

initGlobalStore(b, opts) ==
  LET g == getGlobalStore(b) IN Via(g) /\ InitStore(g.store, opts, TRUE)

configureStoreStrategy(b, keyOrPrefix, strategy) ==
  LET g == getStore(b)
  IN Via(g) /\ ConfigureStrategy(g.store, keyOrPrefix, strategy)

\* the export clearAppData of the facade
facadeClearAppData(b, appStorageKey) ==
  LET g == getStore(b)
  IN Via(g) /\ ClearAppData(g.store, appStorageKey, "none", FALSE)

getStoreValue(b, key) ==
  LET g == getStore(b) IN Via(g) /\ Get(g.store, key, FALSE)

setStoreValue(b, key, value, callback) ==
  LET g == getStore(b) IN Via(g) /\ Set(g.store, key, value, callback, {}, {})

subscribeStore(b, key, callback) ==
  LET g == getStore(b) IN Via(g) /\ Subscribe(g.store, key, callback)

unsubscribeStore(b, key, callback) ==
  LET g == getStore(b) IN Via(g) /\ Unsubscribe(g.store, key, callback)

clearStore(b) ==
  LET g == getStore(b) IN Via(g) /\ Clear(g.store, FALSE)

FacadeValues == {One, Two}

NextFacade ==
  \/ \E b \in Bundle : initGlobalStore(b, DefaultOptions)
  \/ \E b \in Bundle :
       configureStoreStrategy(b, Ka, Strategy("local", FALSE))
  \/ \E b \in Bundle, v \in FacadeValues :
       /\ \A d \in Ctx : Len(inbox[d]) < MaxInbox
       /\ setStoreValue(b, Ka, v, NoCb)
  \/ \E b \in Bundle : getStoreValue(b, Ka)
  \/ \E b \in Bundle : subscribeStore(b, Ka, "f")
  \/ \E b \in Bundle : unsubscribeStore(b, Ka, "f")
  \/ \E b \in Bundle : clearStore(b)
  \/ \E b \in Bundle :
       /\ \A d \in Ctx : Len(inbox[d]) < MaxInbox
       /\ facadeClearAppData(b, StoreS)
  \/ \E c \in Ctx : OnMessage(c, FALSE, {})

SpecFacade == Init /\ [][NextFacade]_vars

\* C22: within one browsing context only the first loader constructs the
\* coordinator and later loaders attach to it: no second instance is ever
\* constructed, window.globalStore and every bundle's globalStoreInstance
\* are unset or the first instance, and every facade call (init, get, set,
\* subscribe, unsubscribe, clear, configureStrategy, clearAppData) of every
\* bundle operates on the first instance, whichever bundles called
\* initGlobalStore and in whatever order.
C22_Singleton ==
  [][/\ windowGlobalStore' \in {NoStore, "A"}
     /\ \A b \in Bundle : bundleInstance'[b] \in {NoStore, "A"}
     /\ last'.ctx = "A"]_vars

----------------------------------------------------------------------------
(* The order of the statements of set *)

OrderKeys     == {Ka, Kab}
OrderValues   == {One, Undef}
OrderFailures == {{}, {"perKey"}, {"aggregate"}, {"broadcast"}}

NextOrder ==
  \/ Direct /\ \E o \in StoreOptions :
       ~isInitialized["A"] /\ InitStore("A", o, TRUE)
  \/ Direct /\ ~isInitialized["B"] /\ InitStore("B", DefaultOptions, TRUE)
  \/ Direct /\ \E st \in StoreStrategies :
       isInitialized["A"] /\ ConfigureStrategy("A", Ka, st)
  \/ Direct /\ \E k \in OrderKeys : Subscribe("A", k, "f")
  \/ Direct /\ \E k \in OrderKeys, v \in OrderValues, cb \in {NoCb, "g"},
                  fail \in OrderFailures :
       Set("A", k, v, cb, fail, {})
  \/ OnMessage("B", FALSE, {})

SpecOrder == Init /\ [][NextOrder]_vars

C24_PersistLoad ==
  [][(last'.op = "set" /\ Len(steps') >= 3 /\ steps'[3].step = "perKey"
        /\ steps'[3].ok) =>
       \A c \in {last'.ctx} :
         LET key      == last'.key
             value    == last'.value
             strategy == findStrategyFor(strategies[c], key)
             itemKey  == makeItemKey(options[c], key)
             local    == steps'[3].local
             session  == steps'[3].session
             medium   == IF strategy.medium = "local" THEN local ELSE session
         IN /\ itemKey = options[c].storageKey \o <<":">> \o key
            /\ ~Persisted(c, key) =>
                 /\ local = localStorage /\ session = sessionStorage[c]
                 /\ loadKey(c, key, local, session) = Undef
            /\ Persisted(c, key) =>
                 /\ OthersKept(localStorage, local, itemKey)
                 /\ OthersKept(sessionStorage[c], session, itemKey)
                 /\ strategy.medium = "local" =>
                      session = sessionStorage[c]
                 /\ strategy.medium = "session" => local = localStorage
                 /\ (itemKey \in DOMAIN medium) <=> (value # Undef)
                 /\ value # Undef =>
                      medium[itemKey].fmt
                        = IF strategy.encrypted THEN "enc" ELSE "json"
                 /\ loadKey(c, key, local, session) = value]_vars

\* set('a.b', 1) under the encoded session strategy of 'a': the item
\* 'S:a.b' is in the session-scoped storage only and loads as 1
C24_Witness ==
  /\ last.op = "set" /\ last.ctx = "A" /\ last.key = Kab
  /\ last.value = One
  /\ findStrategyFor(strategies["A"], Kab) = Strategy("session", TRUE)
  /\ steps[3].ok
  /\ makeItemKey(options["A"], Kab) \in DOMAIN sessionStorage["A"]
  /\ makeItemKey(options["A"], Kab) \notin DOMAIN localStorage
  /\ loadKey("A", Kab, localStorage, sessionStorage["A"]) = One

----------------------------------------------------------------------------
(* Items that cannot be deserialized *)

\* a string that is neither the output of encryptObject nor JSON text
Garbage == [fmt |-> "garbage", v |-> Undef]

\* another party of the origin writes str to the item itemKey of the
\* durable-local storage (session = FALSE) or of the session-scoped storage
\* of context c
StorageWrite(c, itemKey, str, session) ==
  /\ localStorage' = IF session THEN localStorage
                     ELSE setItem(localStorage, itemKey, str)
  /\ sessionStorage' = IF session
                       THEN [sessionStorage EXCEPT
                               ![c] = setItem(sessionStorage[c], itemKey, str)]
                       ELSE sessionStorage
  /\ calls' = <<>>
  /\ steps' = <<>>
  /\ last' = Op("storageWrite", c, itemKey, Undef, Undef, tree[c], NoCb,
                FALSE)
  /\ UNCHANGED <<tree, subscribers, strategies, options, isInitialized,
                 channel, inbox, sets, listening, destroyed, bundleInstance,
                 windowGlobalStore>>

CorruptStrategies ==
  {Strategy("local", FALSE), Strategy("local", TRUE),
   Strategy("session", TRUE)}
CorruptValues == {One, Undef}

NextCorrupt ==
  \/ Direct /\ ~isInitialized["A"] /\ InitStore("A", DefaultOptions, TRUE)
  \/ Direct /\ \E st \in CorruptStrategies :
       isInitialized["A"] /\ ConfigureStrategy("A", Ka, st)
  \/ Direct /\ \E k \in {Ka, Kab}, v \in CorruptValues :
       Set("A", k, v, NoCb, {}, {})
  \/ \E k \in {Ka, Kab}, session \in BOOLEAN :
       StorageWrite("A", makeItemKey(options["A"], k), Garbage, session)
  \/ Direct /\ Clear("A", FALSE)
  \/ Direct /\ \E k \in {Ka, Kab} : Get("A", k, FALSE)

SpecCorrupt == Init /\ [][NextCorrupt]_vars

\* the per-key item of key exists in the medium of the key's strategy and
\* cannot be deserialized as the strategy requires
Undecodable(c, key) ==
  LET strategy == findStrategyFor(strategies[c], key)
      itemKey  == makeItemKey(options[c], key)
      medium   == IF strategy.medium = "local" THEN localStorage
                  ELSE sessionStorage[c]
  IN /\ Persisted(c, key)
     /\ itemKey \in DOMAIN medium
     /\ medium[itemKey].fmt \notin {"json"} \cup
          (IF strategy.encrypted THEN {"enc"} ELSE {})

\* C26: when the stored item of a key cannot be deserialized, for encoded
\* and for unencoded strategies alike, loadKey returns absent: a get(key)
\* that misses in the Tree returns absent and leaves the Tree unchanged (no
\* placeholder value is hydrated), and no error propagates.
C26_UndecodableAbsent ==
  [][last'.op = "get" =>
       \A c \in {last'.ctx}, key \in {last'.key} :
         (Undecodable(c, key) /\ StorageCoreGet(tree[c], key) = Undef) =>
           /\ loadKey(c, key, localStorage, sessionStorage[c]) = Undef
           /\ last'.ret = Undef
           /\ tree' = tree
           /\ ~last'.threw]_vars

----------------------------------------------------------------------------
(* clearAppData messages: A clears, B receives *)

NextClearMsg ==
  \/ Direct /\ ~isInitialized["A"] /\ InitStore("A", DefaultOptions, TRUE)
  \/ Direct /\ \E o \in StoreOptions :
       ~isInitialized["B"] /\ InitStore("B", o, TRUE)
  \/ Direct /\ isInitialized["A"]
       /\ ConfigureStrategy("A", Ka, Strategy("local", FALSE))
  \/ Direct /\ \E k \in {Ka, Kz} :
       Len(inbox["B"]) < MaxInbox /\ Set("A", k, One, NoCb, {}, {})
  \/ Direct /\ \E k \in LifeClearKeys :
       /\ isInitialized["A"] /\ Len(inbox["B"]) < MaxInbox
       /\ ClearAppData("A", k, "none", FALSE)
  \/ OnMessage("B", FALSE, {})

SpecClearMsg == Init /\ [][NextClearMsg]_vars

\* the message that context c handles next, if there is one
Incoming(c) == IF inbox[c] = <<>> THEN {} ELSE {Head(inbox[c])}

\* the step is the handling of a clearAppData message m by context c
HandlesClearMsg(c, m) ==
  /\ last'.op \in {"msgClear", "msgIgnored"}
  /\ last'.ctx = c
  /\ inbox[c] # <<>> /\ m = Head(inbox[c])
  /\ inbox'[c] = Tail(inbox[c])
  /\ m.type = "clearAppData"

\* C27 (as stated): on an incoming clearApp message the receiver clears its
\* Tree if and only if the message's appStorageKey equals its own
\* storageKey, and in either case writes to and removes from no storage
\* medium, so the aggregate item removed by the sender stays absent.
C27_ClearMsgNoStorage ==
  [][\A c \in Ctx : \A m \in Incoming(c) :
       HandlesClearMsg(c, m) =>
         /\ tree'[c] = IF m.key = options[c].storageKey THEN EmptyObj
                       ELSE tree[c]
         /\ localStorage' = localStorage
         /\ sessionStorage' = sessionStorage]_vars

\* C27 (amended): on an incoming clearApp message the receiver clears its
\* Tree if and only if the message's appStorageKey equals its own
\* storageKey.  It removes no item and touches neither the session-scoped
\* storage nor any per-key item; when the key matches and enablePersistence
\* is set it writes the aggregate item again, holding the empty tree, so the
\* item removed by the sender is present again; otherwise the durable-local
\* storage is left as it is.
C27_ClearMsgRewritesAggregate ==
  [][\A c \in Ctx : \A m \in Incoming(c) :
       HandlesClearMsg(c, m) =>
         /\ tree'[c] = IF m.key = options[c].storageKey THEN EmptyObj
                       ELSE tree[c]
         /\ sessionStorage' = sessionStorage
         /\ DOMAIN localStorage \subseteq DOMAIN localStorage'
         /\ OthersKept(localStorage, localStorage', options[c].storageKey)
         /\ IF m.key = options[c].storageKey
               /\ options[c].enablePersistence
            THEN /\ options[c].storageKey \in DOMAIN localStorage'
                 /\ loadFromStorage(options[c], localStorage') = EmptyObj
            ELSE localStorage' = localStorage]_vars

\* B held {a: 1}, then handled the clearAppData message of A for the
\* storageKey of both: its Tree is empty and the aggregate item, which A had
\* removed, is in the durable-local storage again
C27_Witness ==
  /\ last.op = "msgClear" /\ last.ctx = "B" /\ last.key = StoreS
  /\ StorageCoreGet(last.before, Ka) = One
  /\ tree["B"] = EmptyObj
  /\ options["B"].enablePersistence
  /\ StoreS \in DOMAIN localStorage
  /\ loadFromStorage(options["B"], localStorage) = EmptyObj

----------------------------------------------------------------------------
(* The subscriber registry under every operation of the coordinator *)

RegistryPairs == {<<Ka, "f">>, <<Ka, "g">>, <<Kab, "f">>}

NextRegistry ==
  \/ Direct /\ \E o \in LifeOptions : InitStore("A", o, TRUE)
  \/ Direct /\ ~isInitialized["B"] /\ InitStore("B", DefaultOptions, TRUE)
  \/ Direct /\ \E sp \in RegistryPairs : Subscribe("A", sp[1], sp[2])
  \/ Direct /\ \E sp \in RegistryPairs : Unsubscribe("A", sp[1], sp[2])
  \/ Direct /\ \E c \in Ctx :
       /\ \A d \in Ctx : Len(inbox[d]) < MaxInbox
       /\ Set(c, Ka, One, NoCb, {}, {})
  \/ Direct /\ Get("A", Ka, FALSE)
  \/ Direct /\ Clear("A", FALSE)
  \/ Direct /\ \E c \in Ctx :
       /\ \A d \in Ctx : Len(inbox[d]) < MaxInbox
       /\ ClearAppData(c, StoreS, "none", FALSE)
  \/ Destroy("A", FALSE)
  \/ OnStorage("A", StoreS, encryptObject(ObjB1))
  \/ \E c \in Ctx : OnMessage(c, FALSE, {})

SpecRegistry == Init /\ [][NextRegistry]_vars

\* the (path, callback) pairs of a registry
PairsOf(subs) ==
  UNION {{<<k, subs[k][i]>> : i \in DOMAIN subs[k]} : k \in DOMAIN subs}

\* C28: the registry never maps a path to an empty callback set, and a
\* (path, callback) pair stays registered from subscribe until its
\* unsubscribe (handle or explicit) or destroy: subscribe adds exactly its
\* pair, unsubscribe removes exactly its pair (not the same callback under
\* another path, not another callback of the path), destroy removes all,
\* and no other operation (init, set, get, clear, clearAppData, sync
\* message, storage event) changes the pairs.
C28_Registry ==
  [][\A c \in Ctx :
       /\ \A k \in DOMAIN subscribers'[c] : subscribers'[c][k] # <<>>
       /\ PairsOf(subscribers'[c]) =
            IF last'.ctx # c THEN PairsOf(subscribers[c])
            ELSE IF last'.op = "subscribe"
            THEN PairsOf(subscribers[c]) \cup {<<last'.key, last'.cb>>}
            ELSE IF last'.op = "unsubscribe"
            THEN PairsOf(subscribers[c]) \ {<<last'.key, last'.cb>>}
            ELSE IF last'.op = "destroy" THEN {}
            ELSE PairsOf(subscribers[c])]_vars

\* unsubscribe('a', f) has pruned the path 'a', and f is still registered
\* under 'a.b'
C28_Witness ==
  /\ last.op = "unsubscribe" /\ last.ctx = "A" /\ last.key = Ka
  /\ last.cb = "f"
  /\ Ka \notin DOMAIN subscribers["A"]
  /\ PairsOf(subscribers["A"]) = {<<Kab, "f">>}
  /\ isInitialized["A"] /\ tree["A"] # EmptyObj

----------------------------------------------------------------------------
(* The aggregate item of one coordinator (A), the only writer of the       *)
(* storage media; B persists nothing and posts set messages to A          *)

AggregateOptions ==
  {DefaultOptions,
   [DefaultOptions EXCEPT !.enableEncryption = FALSE],
   [DefaultOptions EXCEPT !.storageKey = StoreSX]}

NextAggregate ==
  \/ Direct /\ \E o \in AggregateOptions :
       ~isInitialized["A"] /\ InitStore("A", o, TRUE)
  \/ Direct /\ ~isInitialized["B"] /\ InitStore("B", NoPersistence, TRUE)
  \/ Direct /\ isInitialized["A"]
       /\ ConfigureStrategy("A", Ka, Strategy("local", FALSE))
  \/ Direct /\ \E k \in {Ka, Kz}, v \in {One, Undef} :
       Len(inbox["B"]) < MaxInbox /\ Set("A", k, v, NoCb, {}, {})
  \/ Direct /\ Len(inbox["A"]) < MaxInbox /\ Set("B", Ka, Two, NoCb, {}, {})
  \/ Direct /\ Get("A", Ka, FALSE)
  \/ Direct /\ isInitialized["A"] /\ Clear("A", FALSE)
  \/ Direct /\ \E k \in {StoreS, StoreSX} :
       /\ isInitialized["A"] /\ Len(inbox["B"]) < MaxInbox
       /\ ClearAppData("A", k, "none", FALSE)
  \/ \E c \in Ctx : OnMessage(c, FALSE, {})

SpecAggregate == Init /\ [][NextAggregate]_vars

\* the step completes an init, set, hydrating get, clear, clearAppData or
\* the handling of a set message in a coordinator with enablePersistence set
PersistentOp ==
  /\ \/ last'.op \in {"init", "set", "clear", "clearAppData", "msgSet"}
     \/ last'.op = "get" /\ tree'[last'.ctx] # tree[last'.ctx]
  /\ options'[last'.ctx].enablePersistence

\* the step is a clearAppData(K) by a coordinator whose own storageKey
\* starts with K followed by ':'
ClearsByPrefix ==
  /\ last'.op = "clearAppData"
  /\ Prefixed(options[last'.ctx].storageKey, last'.key)

----------------------------------------------------------------------------
(* Coordinators bound to different store names, in two contexts *)

NoName == <<>>                    \* the storageKey ''

IsolateNamesA == {StoreS, NoName}
IsolateNamesB == {StoreT, StoreSX, StoreS, NoName}
IsolateValues == {One, ObjB1}

\* the storage events (e.key, e.newValue) that the last operation of context
\* c fires in the other contexts: for a set or a clear one for the per-key
\* item of a key of medium local and one for the aggregate item; for a
\* destroy one for the aggregate item it removed
FiredBy(c) ==
  LET itemKey   == makeItemKey(options[c], last.key)
      strategy  == findStrategyFor(strategies[c], last.key)
      perKey    == IF /\ last.op = "set" /\ Persisted(c, last.key)
                      /\ strategy.medium = "local"
                   THEN IF itemKey \in DOMAIN localStorage
                        THEN {<<itemKey, localStorage[itemKey]>>}
                        ELSE {<<itemKey, NullString>>}
                   ELSE {}
      aggregate == IF /\ options[c].enablePersistence
                      /\ options[c].storageKey \in DOMAIN localStorage
                   THEN {<<options[c].storageKey,
                           localStorage[options[c].storageKey]>>}
                   ELSE {}
  IN IF last.ctx = c /\ last.op \in {"set", "clear"}
     THEN perKey \cup aggregate
     ELSE IF last.ctx = c /\ last.op = "destroy"
     THEN {<<steps[i].key, NullString>> : i \in DOMAIN steps}
     ELSE {}

NextIsolate ==
  \/ Direct /\ \E k \in IsolateNamesA :
       /\ ~isInitialized["A"]
       /\ InitStore("A", [DefaultOptions EXCEPT !.storageKey = k], TRUE)
  \/ Direct /\ \E k \in IsolateNamesB :
       /\ ~isInitialized["B"]
       /\ InitStore("B", [DefaultOptions EXCEPT !.storageKey = k], TRUE)
  \/ Direct /\ isInitialized["A"]
       /\ ConfigureStrategy("A", Kx, Strategy("local", TRUE))
  \/ Direct /\ isInitialized["B"] /\ Subscribe("B", Ka, "f")
  \/ Direct /\ isInitialized["B"] /\ Len(inbox["A"]) < MaxInbox
       /\ Set("B", Ka, One, NoCb, {}, {})
  \/ Direct /\ \E k \in {Ka, Kx}, v \in IsolateValues :
       /\ isInitialized["A"] /\ Len(inbox["B"]) < MaxInbox
       /\ Set("A", k, v, NoCb, {}, {})
  \/ Direct /\ isInitialized["A"] /\ Clear("A", FALSE)
  \/ \E e \in FiredBy("A") : OnStorage("B", e[1], e[2])
  \/ \E c \in Ctx : OnMessage(c, FALSE, {})

SpecIsolate == Init /\ [][NextIsolate]_vars

\* the step is a set or a clear of context A, or the handling in context B
\* of a set message or of a storage event that such an operation caused
CausedByA ==
  \/ last'.ctx = "A" /\ last'.op \in {"set", "clear"}
  \/ last'.ctx = "B" /\ last'.op \in {"msgSet", "storage"}

\* the step leaves the Tree of context B as it was and calls no subscriber
\* of context B
LeavesB ==
  /\ tree'["B"] = tree["B"]
  /\ last'.ctx = "B" => calls' = <<>>

\* both coordinators are initialized, under different storageKeys
DifferentNames ==
  /\ isInitialized["A"] /\ isInitialized["B"]
  /\ options["A"].storageKey # options["B"].storageKey

\* the two storageKeys name the same channel and aggregate listener (one is
\* '' and the other 'mf-shell-store'), or the name of B is the identifier of
\* a per-key item of A
Aliased ==
  \/ OrDefault(options["A"].storageKey) = OrDefault(options["B"].storageKey)
  \/ Prefixed(OrDefault(options["B"].storageKey),
              OrDefault(options["A"].storageKey))

\* C30 (as stated): a set or a clear performed in a coordinator bound to
\* storageKey K1 never changes the Tree of, and never invokes a subscriber
\* of, a coordinator bound to a different storageKey K2.
C30_Isolated ==
  [][(DifferentNames /\ CausedByA) => LeavesB]_vars

\* C30 (amended): the same holds when K1 and K2 are different names after
\* '' is replaced by 'mf-shell-store' and K2 is not K1 followed by ':' and a
\* key.
C30_IsolatedUnlessAliased ==
  [][(DifferentNames /\ ~Aliased /\ CausedByA) => LeavesB]_vars

\* context B, bound to 'T' and holding a value, has run its storage listener
\* for the aggregate item 'S' written by a set of context A and kept its Tree
C30_Witness ==
  /\ last.op = "storage" /\ last.ctx = "B" /\ last.key = StoreS
  /\ options["A"].storageKey = StoreS /\ options["B"].storageKey = StoreT
  /\ StorageCoreGet(tree["A"], Kx) = ObjB1
  /\ tree["B"] # EmptyObj /\ tree["B"] = last.before

----------------------------------------------------------------------------
(* An aggregate item that does not hold a mapping *)

RootItems ==
  {JSONstringify(Null), JSONstringify(One), encryptObject(Null),
   JSONstringify(ObjB1), encryptObject(ObjB1), Garbage}
RootOptions ==
  {DefaultOptions, [DefaultOptions EXCEPT !.enableEncryption = FALSE]}

\* the Tree of context c is a mapping
TreeIsMapping(c) == tree[c][<<>>] = "obj"

\* GlobalStore.set on a Tree that is null or a scalar: setNestedValue
\* raises a TypeError on the first property it reads or assigns, before
\* anything is changed, and the error leaves set
SetThrows(c, key, value) ==
  /\ isInitialized[c] /\ ~TreeIsMapping(c)
  /\ LastSegNonEmpty(key)
  /\ calls' = <<>>
  /\ steps' = <<>>
  /\ last' = OpF("set", c, key, value, Undef, tree[c], NoCb, TRUE,
                 "typeError")
  /\ UNCHANGED <<tree, subscribers, strategies, options, isInitialized,
                 channel, inbox, localStorage, sessionStorage, sets,
                 listening, destroyed, bundleInstance, windowGlobalStore>>

NextRoot ==
  \/ \E str \in RootItems : StorageWrite("A", StoreS, str, FALSE)
  \/ Direct /\ \E o \in RootOptions :
       ~isInitialized["A"] /\ InitStore("A", o, TRUE)
  \/ \E str \in RootItems : OnStorage("A", StoreS, str)
  \/ Direct /\ \E v \in {One, Undef} :
       TreeIsMapping("A") /\ Set("A", Ka, v, NoCb, {}, {})
  \/ \E v \in {One, Undef} : SetThrows("A", Ka, v)
  \/ Direct /\ Get("A", Ka, FALSE)
  \/ Direct /\ isInitialized["A"] /\ Clear("A", FALSE)
  \/ Destroy("A", FALSE)

SpecRoot == Init /\ [][NextRoot]_vars

\* C36: in every reachable state of an initialized coordinator the Tree is
\* a mapping, whatever the aggregate item contained at init or in a
\* storage-change event, and no set or get fails while traversing the Tree.
C36_TreeIsMapping ==
  /\ \A c \in Ctx : isInitialized[c] => TreeIsMapping(c)
  /\ last.op \in {"set", "get"} => last.fail # "typeError"

----------------------------------------------------------------------------
(* destroy in one context, another context bound to the same storageKey *)

NextDestroy ==
  \/ Direct /\ \E c \in Ctx :
       ~isInitialized[c] /\ InitStore(c, DefaultOptions, TRUE)
  \/ Direct /\ \E c \in Ctx, v \in {One, ObjB1} :
       /\ isInitialized[c]
       /\ \A d \in Ctx \ {c} : Len(inbox[d]) < MaxInbox
       /\ Set(c, Ka, v, NoCb, {}, {})
  \/ Direct /\ Get("B", Ka, FALSE)
  \/ isInitialized["A"] /\ Destroy("A", FALSE)
  \/ \E e \in FiredBy("A") : OnStorage("B", e[1], e[2])
  \/ \E c \in Ctx : OnMessage(c, FALSE, {})

SpecDestroy == Init /\ [][NextDestroy]_vars

\* C35: destroy() in one context leaves the Tree of every other initialized
\* context bound to the same storageKey unchanged, through the destroy
\* itself and through the storage event it causes.
C35_DestroyLeavesOthers ==
  [][(/\ isInitialized["B"]
      /\ options["B"].storageKey = options["A"].storageKey
      /\ \/ last'.op = "destroy" /\ last'.ctx = "A"
         \/ /\ last.op = "destroy" /\ last.ctx = "A"
            /\ last'.op = "storage" /\ last'.ctx = "B")
       => tree'["B"] = tree["B"]]_vars

----------------------------------------------------------------------------
(* Deleting a key that has per-key items *)

NextDelete ==
  \/ Direct /\ ~isInitialized["A"] /\ InitStore("A", DefaultOptions, TRUE)
  \/ Direct /\ \E st \in StoreStrategies :
       isInitialized["A"] /\ ConfigureStrategy("A", Ka, st)
  \/ Direct /\ \E k \in {Ka, Kab}, v \in {One, Undef} :
       isInitialized["A"] /\ Set("A", k, v, NoCb, {}, {})
  \/ Direct /\ \E k \in {Ka, Kab} : Get("A", k, FALSE)

SpecDelete == Init /\ [][NextDelete]_vars

\* C33: after set(k, absent) on an initialized coordinator with per-key
\* strategies configured, get(k) and get of every descendant path of k
\* return absent until the next write to that path: here for the get that
\* follows the set at once.
C33_DeletedStaysAbsent ==
  [][(/\ last.op = "set" /\ last.value = Undef
      /\ last'.op = "get" /\ last'.ctx = last.ctx
      /\ SegPrefix(last.key, last'.key))
       => last'.ret = Undef]_vars

----------------------------------------------------------------------------
(* Keys with an encrypted strategy, under every setting of the options *)

SecretOptions ==
  {[DefaultOptions EXCEPT !.enablePersistence = p, !.enableEncryption = e] :
     p, e \in BOOLEAN}

NextSecret ==
  \/ Direct /\ \E o \in SecretOptions :
       ~isInitialized["A"] /\ InitStore("A", o, TRUE)
  \/ Direct /\ \E m \in {"local", "session"}, e \in BOOLEAN :
       isInitialized["A"] /\ ConfigureStrategy("A", Ka, Strategy(m, e))
  \/ Direct /\ \E k \in {Ka, Kab, Kz}, v \in {One, ObjB1, Undef} :
       isInitialized["A"] /\ Set("A", k, v, NoCb, {}, {})
  \/ Direct /\ \E k \in {Ka, Kab} : Get("A", k, FALSE)

SpecSecret == Init /\ [][NextSecret]_vars

\* the stored string str is plain JSON text that holds value, as a whole or
\* at the path key
HoldsPlain(str, key, value) ==
  /\ str.fmt = "json"
  /\ \/ str.v = value
     \/ StorageCoreGet(str.v, key) = value

\* C34: a value set under a key whose resolved strategy has encrypted =
\* true is in no storage medium in plain JSON form after the set, whatever
\* the values of enablePersistence and enableEncryption.
C34_NeverPlain ==
  (/\ last.op = "set" /\ last.value # Undef
   /\ findStrategyFor(strategies[last.ctx], last.key).encrypted)
    => /\ \A k \in DOMAIN localStorage :
            ~HoldsPlain(localStorage[k], last.key, last.value)
       /\ \A k \in DOMAIN sessionStorage[last.ctx] :
            ~HoldsPlain(sessionStorage[last.ctx][k], last.key, last.value)

----------------------------------------------------------------------------
(* Two contexts of one store writing different paths *)

NextRace ==
  \/ Direct /\ \E c \in Ctx :
       ~isInitialized[c] /\ InitStore(c, DefaultOptions, TRUE)
  \/ Direct /\ isInitialized["A"] /\ Len(inbox["B"]) < MaxInbox
       /\ Set("A", Ka, One, NoCb, {}, {})
  \/ Direct /\ \E v \in {One, Two} :
       /\ isInitialized["B"] /\ Len(inbox["A"]) < MaxInbox
       /\ Set("B", Kz, v, NoCb, {}, {})
  \/ Direct /\ \E c \in Ctx, k \in {Ka, Kz} : Get(c, k, FALSE)
  \/ \E c \in Ctx, d \in Ctx : \E e \in FiredBy(c) :
       d # c /\ OnStorage(d, e[1], e[2])
  \/ \E c \in Ctx : OnMessage(c, FALSE, {})

SpecRace == Init /\ [][NextRace]_vars

\* C31: no local write is lost to synchronization: context A has set 'a' to
\* 1, the other context writes only 'z' and nobody clears, so once get('a')
\* returns 1 in A it returns 1 in every later state, under any interleaving
\* of messages and storage events.
C31_NoLostWrite ==
  [][(isInitialized["A"] /\ GlobalStoreGet("A", Ka, FALSE).ret = One)
       => StorageCoreGet(tree'["A"], Ka) = One]_vars

----------------------------------------------------------------------------
(* A subscriber that calls set from its callback *)

\* the callback that, notified of a value other than 2 at a path, calls
\* set(path, 2) before it returns
ReCb == "r"

\* ReCb is subscribed to key in context c
HasReCb(c, key) ==
  IF key \in DOMAIN subscribers[c]
  THEN \E i \in DOMAIN subscribers[c][key] : subscribers[c][key][i] = ReCb
  ELSE FALSE

\* the calls of a notification during which the callback at position i
\* performs a set whose own notification makes the calls nested
reenterCalls(outer, nested) ==
  LET R == {i \in DOMAIN outer : outer[i].cb = ReCb}
      i == CHOOSE j \in R : TRUE
  IN IF R = {} THEN outer
     ELSE SubSeq(outer, 1, i) \o nested \o SubSeq(outer, i + 1, Len(outer))

\* GlobalStore.set(key, value) with ReCb subscribed to key: the set of ReCb
\* runs to its end, notifications included, inside the notification of the
\* outer set, which then goes on with the callbacks after ReCb
SetReentrant(c, key, value) ==
  LET oldValue == StorageCoreGet(tree[c], key)
      data2    == StorageCoreSet(tree[c], key, value).data
      data3    == StorageCoreSet(data2, key, Two).data
      media    == persistKey(c, key, Two, FALSE)
      posted   == broadcast(c, SetMsg(key, value), FALSE)
      outer    == notifyCalls(subscribers[c], key, value, oldValue, data2,
                              NoCb, {})
      nested   == notifyCalls(subscribers[c], key, Two,
                              StorageCoreGet(data2, key), data3, NoCb, {})
  IN /\ isInitialized[c]
     /\ HasReCb(c, key)
     /\ value \notin {Undef, Two}
     /\ sets < MaxSets
     /\ sets' = sets + 1
     /\ tree' = [tree EXCEPT ![c] = data3]
     /\ localStorage' = IF options[c].enablePersistence
                        THEN saveToStorage(options[c], media.local, data3,
                                           FALSE)
                        ELSE media.local
     /\ sessionStorage' = [sessionStorage EXCEPT ![c] = media.session]
     /\ inbox' = [d \in Ctx |->
                    IF posted[d] # inbox[d]
                    THEN Append(posted[d], SetMsg(key, Two))
                    ELSE inbox[d]]
     /\ calls' = reenterCalls(outer, nested)
     /\ last' = Op("setReentrant", c, key, value, oldValue, tree[c], NoCb,
                   FALSE)
     /\ steps' = <<>>
     /\ UNCHANGED <<subscribers, strategies, options, isInitialized,
                    channel, listening, destroyed>>

NextReenter ==
  \/ Direct /\ ~isInitialized["A"] /\ InitStore("A", DefaultOptions, TRUE)
  \/ Direct /\ \E cb \in {ReCb, "f", "g"} :
       isInitialized["A"] /\ Subscribe("A", Ka, cb)
  \/ Direct /\ \E cb \in {ReCb, "f"} : Unsubscribe("A", Ka, cb)
  \/ Direct /\ \E v \in {One, ObjB1, Two} :
       /\ isInitialized["A"]
       /\ (v = Two \/ ~HasReCb("A", Ka))
       /\ Set("A", Ka, v, NoCb, {}, {})
  \/ Direct /\ \E v \in {One, ObjB1} : SetReentrant("A", Ka, v)

SpecReenter == Init /\ [][NextReenter]_vars

\* C32: when a callback calls set on the same path during a notification,
\* then once the outermost set has returned, the last notification
\* delivered to each subscriber of that path carries the value the Tree
\* holds at that path.
C32_LastNotificationCurrent ==
  last.op = "setReentrant"
    => \A i \in DOMAIN calls :
         (\A j \in DOMAIN calls : calls[j].cb = calls[i].cb => j <= i)
           => calls[i].new = StorageCoreGet(tree[last.ctx], last.key)

====
